---- MODULE Spec2Model ----
(***************************************************************************)
(* Credential resolution and connection acquisition of the Salesforce MCP  *)
(* servers of this repository.                                             *)
(*                                                                         *)
(* The repository holds several server programs.  `variant' says which one *)
(* is running:                                                             *)
(*   "index"    src/index.mjs, createServer with the five-branch           *)
(*              getSalesforceConnection (lines 62-320)                     *)
(*   "password" src/unnamed/part_000, createServer with the login-only     *)
(*              getSalesforceConnection                                    *)
(*   "minimal"  src/packages/mcp/minimal-server/server.js, with the        *)
(*              module-level sfConnection                                  *)
(*   "oauth"    src/packages/mcp/oauth-setup.js, the OAuth setup server    *)
(*   "dx"       InsertRecordMcpTool of                                     *)
(*              src/packages/mcp-provider-dx-core/src/tools/insert_record.ts*)
(*                                                                         *)
(* Spec runs the soql_query handlers and the OAuth setup server's routes,  *)
(* SpecSelect one soql_query invocation of src/index.mjs under every       *)
(* configuration, SpecInsert the insert_record handlers.                   *)
(*                                                                         *)
(* JavaScript handlers are asynchronous: a handler runs without            *)
(* interruption up to an `await' on the network, and other handlers run    *)
(* while it waits.  Each action below is one such uninterrupted stretch.   *)
(* Process 0 is main(); processes 1..MaxCalls are the requests received.   *)
(***************************************************************************)
EXTENDS Naturals, Sequences, FiniteSets, TLC

VARIABLES
    variant,       \* which server program runs
    config,        \* the configuration object (config, process.env, oauth2Config)
    args,          \* the arguments each tool invocation was made with
    pc,            \* where each process stands: idle, an await, or done
    before,        \* the requests that had been answered when each one arrived
    abandoned,     \* the requests whose caller has stopped waiting for the answer
    acquires,      \* how many times each process has called the acquisition helper
                   \* (getSalesforceConnection, connectToSalesforce)
    branch,        \* the authentication branch each process took
    sent,          \* the requests each process has put on the network
    data,          \* the token endpoint's JSON body each process received
    conn,          \* the connection each handler holds (its `conn', or the
                   \* sfConnection it issued its query on)
    outcome,       \* how each process's login or data operation ended, once one
                   \* has failed or the data operation has returned
    created,       \* what create returned or threw to each insert_record handler
    result,        \* what each handler returned: a tool result or a page
    sfConnection,  \* minimal server: the module-level connection
    req,           \* OAuth setup server: req.query of each request
    oauthState,    \* OAuth setup server: the module-level oauthState
    tokensFile,    \* OAuth setup server: the contents of .oauth-tokens.json
    envFile        \* OAuth setup server: the contents of .env.oauth

vars == <<variant, config, args, pc, before, abandoned, acquires, branch, sent, data, conn, outcome, created,
          result,
          sfConnection, req, oauthState, tokensFile, envFile>>

\* The number of requests (tool invocations, HTTP requests) a run receives.
MaxCalls == 2

Calls == 1..MaxCalls
Procs == 0..MaxCalls

(***************************************************************************)
(* JavaScript values.  UNDEF is `undefined' (an absent field); a value is  *)
(* truthy unless it is undefined or the empty string.                      *)
(***************************************************************************)
UNDEF == "<undefined>"

Truthy(v) == v # UNDEF /\ v # ""

\* a || b
OrElse(a, b) == IF Truthy(a) THEN a ELSE b

\* ${v} in a template literal
Str(v) == IF v = UNDEF THEN "undefined" ELSE v

\* s contains t as a contiguous piece
Contains(s, t) ==
    \E i \in 1..(Len(s) + 1) :
        /\ i + Len(t) - 1 <= Len(s)
        /\ SubSeq(s, i, i + Len(t) - 1) = t

DefaultLoginUrl == "https://login.salesforce.com"

(***************************************************************************)
(* Connections (jsforce.Connection objects).  `obj' is FALSE for null; id  *)
(* is the process whose `new jsforce.Connection' made the object.          *)
(***************************************************************************)
Null ==
    [obj |-> FALSE, id |-> 0, instanceUrl |-> UNDEF, accessToken |-> UNDEF,
     refreshToken |-> UNDEF, oauth2 |-> FALSE, loginUrl |-> UNDEF]

NewConnection(p, instanceUrl, accessToken, refreshToken, oauth2, loginUrl) ==
    [obj |-> TRUE, id |-> p, instanceUrl |-> instanceUrl,
     accessToken |-> accessToken, refreshToken |-> refreshToken,
     oauth2 |-> oauth2, loginUrl |-> loginUrl]

NoResult == [returned |-> FALSE, isError |-> FALSE, text |-> ""]

\* { content: [{ type: 'text', text }], isError }
ToolResult(text, isError) == [returned |-> TRUE, isError |-> isError, text |-> text]

(***************************************************************************)
(* The arguments of a tool invocation.  recordData is the sequence of the  *)
(* <<field name, value>> pairs of the object passed: the input schemas     *)
(* (z.record) make it an object, possibly one without keys.                *)
(***************************************************************************)
Args(tool, sobjectType, recordData, usernameOrAlias, directory) ==
    [tool |-> tool, sobjectType |-> sobjectType, recordData |-> recordData,
     usernameOrAlias |-> usernameOrAlias, directory |-> directory]

NoArgs == Args(UNDEF, UNDEF, <<>>, UNDEF, UNDEF)

\* { query }
SoqlArgs == Args("soql_query", UNDEF, <<>>, UNDEF, UNDEF)

SobjectTypes == {"", "Account"}
RecordDatas == {<<>>, << <<"Name", "Test Account">> >>}
UsernamesOrAliases == {"", "me@example.org"}
Directories == {"/project", "/missing"}

\* JSON.stringify(recordData, null, 2)
RECURSIVE JsonFields(_)
JsonFields(rd) ==
    IF rd = <<>> THEN ""
    ELSE "\n  \"" \o rd[1][1] \o "\": \"" \o rd[1][2] \o "\""
         \o (IF Len(rd) > 1 THEN "," ELSE "\n") \o JsonFields(Tail(rd))

Json(rd) == "{" \o JsonFields(rd) \o "}"

(***************************************************************************)
(* Requests put on the network.                                            *)
(***************************************************************************)
TokenPost(url, grant, clientId, clientSecret, code) ==
    [kind |-> "token", url |-> url, grant_type |-> grant, client_id |-> clientId,
     client_secret |-> clientSecret, code |-> code,
     username |-> UNDEF, password |-> UNDEF]

\* conn.login(username, password) of the wrapped client library
LoginCall(loginUrl, oauth2, username, password) ==
    [kind |-> "login", url |-> loginUrl,
     grant_type |-> IF oauth2 THEN "password" ELSE UNDEF,
     client_id |-> UNDEF, client_secret |-> UNDEF, code |-> UNDEF,
     username |-> username, password |-> password]

(***************************************************************************)
(* What the provider may answer.                                           *)
(***************************************************************************)
TokenBody(access_token, instance_url, refresh_token, error, error_description) ==
    [access_token |-> access_token, instance_url |-> instance_url,
     refresh_token |-> refresh_token, error |-> error,
     error_description |-> error_description]

NoTokens == TokenBody(UNDEF, UNDEF, UNDEF, UNDEF, UNDEF)

TokenResponses ==
    { TokenBody("T", "https://org.my.salesforce.com", UNDEF, UNDEF, UNDEF),
      TokenBody("T", "https://org.my.salesforce.com", "R", UNDEF, UNDEF),
      TokenBody(UNDEF, UNDEF, UNDEF, "invalid_grant", "authentication failure"),
      TokenBody(UNDEF, UNDEF, UNDEF, "invalid_client", UNDEF),
      NoTokens }

LoginOk == [ok |-> TRUE, accessToken |-> "S", instanceUrl |-> "https://org.my.salesforce.com",
            message |-> ""]

LoginResponses ==
    { LoginOk,
      [ok |-> FALSE, accessToken |-> UNDEF, instanceUrl |-> UNDEF,
       message |-> "INVALID_LOGIN: Invalid username, password, security token"] }

QueryJson == "{totalSize,done,records}"

ExpiredMessage == "INVALID_SESSION_ID: Session expired or invalid"

QueryResponses ==
    { [ok |-> TRUE, message |-> ""],
      [ok |-> FALSE, message |-> ExpiredMessage],
      [ok |-> FALSE, message |-> "MALFORMED_QUERY: unexpected token"] }

(***************************************************************************)
(* Configurations.                                                         *)
(***************************************************************************)
Config(clientId, clientSecret, refreshToken, username, password, securityToken, accessToken, instanceUrl, loginUrl) ==
    [clientId |-> clientId, clientSecret |-> clientSecret,
     refreshToken |-> refreshToken, username |-> username, password |-> password,
     securityToken |-> securityToken, accessToken |-> accessToken,
     instanceUrl |-> instanceUrl, loginUrl |-> loginUrl]

NoConfig == Config(UNDEF, UNDEF, UNDEF, UNDEF, UNDEF, UNDEF, UNDEF, UNDEF, UNDEF)

Passwords == {"p", "Secret1"}
SecurityTokens == {"", "tok", "ABC123"}
LoginUrls == {UNDEF, "https://test.salesforce.com"}
InstanceUrls == {UNDEF, "https://my.instance"}

\* configSchema of src/index.mjs: every field optional
IndexConfigs ==
    { Config(ci, cs, rt, un, pw, st, at, iu, lu) :
        ci \in {UNDEF, "id1"}, cs \in {UNDEF, "sec1"}, rt \in {UNDEF, "rt1"},
        un \in {UNDEF, "u"}, pw \in {UNDEF, "p"}, st \in {UNDEF, "tok"},
        at \in {UNDEF, "AT"}, iu \in InstanceUrls, lu \in LoginUrls }

\* the configurations under which src/index.mjs is run with several
\* invocations: for each branch of getSalesforceConnection one that sets the
\* fields the branch reads, then some that also set fields it does not read
IndexRunConfigs ==
    { NoConfig,
      Config("id1", "sec1", UNDEF, UNDEF, UNDEF, UNDEF, UNDEF, UNDEF, UNDEF),
      Config("id1", "sec1", "rt1", UNDEF, UNDEF, UNDEF, UNDEF, "https://my.instance", UNDEF),
      Config("id1", "sec1", UNDEF, "u", "p", "tok", UNDEF, UNDEF, UNDEF),
      Config(UNDEF, UNDEF, UNDEF, "u", "p", UNDEF, UNDEF, UNDEF, UNDEF),
      Config(UNDEF, UNDEF, UNDEF, UNDEF, UNDEF, UNDEF, "AT", "https://my.instance", UNDEF),
      Config("id1", "sec1", UNDEF, UNDEF, UNDEF, UNDEF, UNDEF, UNDEF,
             "https://test.salesforce.com"),
      Config("id1", "sec1", UNDEF, UNDEF, "p", UNDEF, "AT", "https://my.instance", UNDEF),
      Config(UNDEF, UNDEF, UNDEF, "u", "p", "tok", "AT", "https://my.instance",
             "https://test.salesforce.com"),
      Config("id1", UNDEF, UNDEF, UNDEF, UNDEF, "tok", UNDEF, UNDEF, UNDEF) }

\* configSchema of src/unnamed/part_000: username and password required
PasswordConfigs ==
    { Config(UNDEF, UNDEF, UNDEF, "u", pw, st, UNDEF, UNDEF, lu) :
        pw \in Passwords, st \in SecurityTokens \cup {UNDEF}, lu \in LoginUrls }

\* SelectBranch with the first test made without `!config.username'
SelectBranchIgnoringUsername(cfg) ==
    IF Truthy(cfg.clientId) /\ Truthy(cfg.clientSecret) /\ ~Truthy(cfg.refreshToken)
    THEN "ClientCredentials"
    ELSE IF Truthy(cfg.refreshToken) /\ Truthy(cfg.clientId) /\ Truthy(cfg.clientSecret)
    THEN "RefreshToken"
    ELSE IF Truthy(cfg.username) /\ Truthy(cfg.password)
            /\ Truthy(cfg.clientId) /\ Truthy(cfg.clientSecret)
    THEN "PasswordWithApp"
    ELSE IF Truthy(cfg.username) /\ Truthy(cfg.password)
    THEN "PasswordOnly"
    ELSE IF Truthy(cfg.instanceUrl) /\ Truthy(cfg.accessToken)
    THEN "DirectToken"
    ELSE "none"

\* SelectBranch with the first test made without `!config.refreshToken'
SelectBranchIgnoringRefreshToken(cfg) ==
    IF Truthy(cfg.clientId) /\ Truthy(cfg.clientSecret) /\ ~Truthy(cfg.username)
    THEN "ClientCredentials"
    ELSE IF Truthy(cfg.refreshToken) /\ Truthy(cfg.clientId) /\ Truthy(cfg.clientSecret)
    THEN "RefreshToken"
    ELSE IF Truthy(cfg.username) /\ Truthy(cfg.password)
            /\ Truthy(cfg.clientId) /\ Truthy(cfg.clientSecret)
    THEN "PasswordWithApp"
    ELSE IF Truthy(cfg.username) /\ Truthy(cfg.password)
    THEN "PasswordOnly"
    ELSE IF Truthy(cfg.instanceUrl) /\ Truthy(cfg.accessToken)
    THEN "DirectToken"
    ELSE "none"

(***************************************************************************)
(* getSalesforceConnection of src/index.mjs: the if-chain, first match     *)
(* wins.                                                                   *)
(***************************************************************************)
SelectBranch(cfg) ==
    IF Truthy(cfg.clientId) /\ Truthy(cfg.clientSecret)
       /\ ~Truthy(cfg.username) /\ ~Truthy(cfg.refreshToken)
    THEN "ClientCredentials"
    ELSE IF Truthy(cfg.refreshToken) /\ Truthy(cfg.clientId) /\ Truthy(cfg.clientSecret)
    THEN "RefreshToken"
    ELSE IF Truthy(cfg.username) /\ Truthy(cfg.password)
            /\ Truthy(cfg.clientId) /\ Truthy(cfg.clientSecret)
    THEN "PasswordWithApp"
    ELSE IF Truthy(cfg.username) /\ Truthy(cfg.password)
    THEN "PasswordOnly"
    ELSE IF Truthy(cfg.instanceUrl) /\ Truthy(cfg.accessToken)
    THEN "DirectToken"
    ELSE "none"

\* const tokenUrl = `${config.instanceUrl || 'https://login.salesforce.com'}/services/oauth2/token`
ClientCredentialsUrl(cfg) ==
    Str(OrElse(cfg.instanceUrl, DefaultLoginUrl)) \o "/services/oauth2/token"

ClientCredentialsRequest(cfg) ==
    TokenPost(ClientCredentialsUrl(cfg), "client_credentials",
              cfg.clientId, cfg.clientSecret, UNDEF)

\* LoginPassword with a blank put between the password and the security token
LoginPasswordWithSeparator(cfg) ==
    IF Truthy(cfg.securityToken)
    THEN Str(cfg.password) \o " " \o Str(cfg.securityToken)
    ELSE cfg.password

\* const password = config.securityToken ? config.password + config.securityToken : config.password
LoginPassword(cfg) ==
    IF Truthy(cfg.securityToken)
    THEN Str(cfg.password) \o Str(cfg.securityToken)
    ELSE cfg.password

LoginRequest(cfg, oauth2) ==
    LoginCall(OrElse(cfg.loginUrl, DefaultLoginUrl), oauth2, cfg.username, LoginPassword(cfg))

MissingMessage ==
    "Authentication configuration missing. Provide either: (clientId + clientSecret) for Client Credentials Flow, (refreshToken + clientId + clientSecret), (username + password + clientId + clientSecret), or (username + password)"

\* throw new Error(`OAuth Client Credentials failed: ${data.error} - ${data.error_description}`)
ClientCredentialsError(body) ==
    "OAuth Client Credentials failed: " \o Str(body.error) \o " - " \o Str(body.error_description)

\* ClientCredentialsConnection that also takes the body's refresh_token
ClientCredentialsConnectionWithRefresh(p, body) ==
    NewConnection(p, body.instance_url, body.access_token, body.refresh_token, FALSE, UNDEF)

\* new jsforce.Connection({ instanceUrl: data.instance_url, accessToken: data.access_token })
ClientCredentialsConnection(p, body) ==
    NewConnection(p, body.instance_url, body.access_token, UNDEF, FALSE, UNDEF)

\* QueryError with the configured password added to the text
QueryErrorEchoingPassword(message) ==
    ToolResult("Error executing query: " \o message \o " (" \o Str(config.password) \o ")", TRUE)

\* the catch block of the soql_query handler
QueryError(message) == ToolResult("Error executing query: " \o message, TRUE)

QuerySuccess == ToolResult(QueryJson, FALSE)

\* the catch block of the insert_record handler
InsertError(message) == ToolResult("Error inserting record: " \o message, TRUE)

\* the catch block of the handler of the tool invoked
Caught(tool, message) ==
    IF tool = "insert_record" THEN InsertError(message) ELSE QueryError(message)

\* the await that follows `const conn = await getSalesforceConnection()'
DataOperation(tool) == IF tool = "insert_record" THEN "create" ELSE "query"

\* DirectTokenConnection taking the instance from the login URL
DirectTokenConnectionAtLoginUrl(p, cfg) ==
    NewConnection(p, OrElse(cfg.loginUrl, DefaultLoginUrl), cfg.accessToken, UNDEF, FALSE, UNDEF)

\* new jsforce.Connection({ instanceUrl: config.instanceUrl, accessToken: config.accessToken })
DirectTokenConnection(p, cfg) ==
    NewConnection(p, cfg.instanceUrl, cfg.accessToken, UNDEF, FALSE, UNDEF)

(***************************************************************************)
(* `const conn = await getSalesforceConnection()' in a handler of          *)
(* src/index.mjs, up to the first await on the network: on the network for *)
(* the exchange or login, else on the handler's data operation.            *)
(***************************************************************************)
GetSalesforceConnection(c, tool) ==
    /\ LET b == SelectBranch(config) IN
       /\ branch' = [branch EXCEPT ![c] = b]
       /\ CASE b = "ClientCredentials" ->
                 /\ sent' = [sent EXCEPT ![c] = Append(@, ClientCredentialsRequest(config))]
                 /\ pc' = [pc EXCEPT ![c] = "fetch"]
                 /\ UNCHANGED <<conn, result>>
            [] b = "RefreshToken" ->
                 /\ conn' = [conn EXCEPT ![c] =
                        NewConnection(c, config.instanceUrl, UNDEF, config.refreshToken,
                                      TRUE, UNDEF)]
                 /\ pc' = [pc EXCEPT ![c] = DataOperation(tool)]
                 /\ UNCHANGED <<sent, result>>
            [] b \in {"PasswordWithApp", "PasswordOnly"} ->
                 /\ conn' = [conn EXCEPT ![c] =
                        NewConnection(c, UNDEF, UNDEF, UNDEF, b = "PasswordWithApp",
                                      OrElse(config.loginUrl, DefaultLoginUrl))]
                 /\ sent' = [sent EXCEPT ![c] =
                        Append(@, LoginRequest(config, b = "PasswordWithApp"))]
                 /\ pc' = [pc EXCEPT ![c] = "login"]
                 /\ UNCHANGED result
            [] b = "DirectToken" ->
                 /\ conn' = [conn EXCEPT ![c] = DirectTokenConnection(c, config)]
                 /\ pc' = [pc EXCEPT ![c] = DataOperation(tool)]
                 /\ UNCHANGED <<sent, result>>
            [] OTHER ->
                 /\ result' = [result EXCEPT ![c] = Caught(tool, MissingMessage)]
                 /\ pc' = [pc EXCEPT ![c] = "done"]
                 /\ UNCHANGED <<sent, conn>>
    /\ acquires' = [acquires EXCEPT ![c] = @ + 1]

\* the soql_query handler of src/index.mjs, up to its first await on the network
IndexInvoke(c) ==
    /\ variant = "index"
    /\ pc[c] = "idle"
    /\ args' = [args EXCEPT ![c] = SoqlArgs]
    /\ GetSalesforceConnection(c, "soql_query")
    /\ before' = [before EXCEPT ![c] = {d \in Calls : pc[d] = "done"}]
    /\ UNCHANGED <<variant, config, abandoned, created, data, outcome, sfConnection, req, oauthState,
                   tokensFile, envFile>>

\* IndexFetchReturn falling back to the configured instanceUrl and
\* accessToken when the token endpoint answers with an error
IndexFetchReturnFallingBack(c) ==
    /\ variant = "index"
    /\ pc[c] = "fetch"
    /\ \E body \in TokenResponses :
         /\ IF Truthy(body.error) /\ ~(Truthy(config.instanceUrl) /\ Truthy(config.accessToken))
            THEN /\ result' = [result EXCEPT ![c] =
                        Caught(args[c].tool, ClientCredentialsError(body))]
                 /\ pc' = [pc EXCEPT ![c] = "done"]
                 /\ UNCHANGED conn
            ELSE /\ conn' = [conn EXCEPT ![c] =
                        IF Truthy(body.error)
                        THEN NewConnection(c, config.instanceUrl, config.accessToken, UNDEF,
                                           FALSE, UNDEF)
                        ELSE ClientCredentialsConnection(c, body)]
                 /\ pc' = [pc EXCEPT ![c] = DataOperation(args[c].tool)]
                 /\ UNCHANGED result
         /\ data' = [data EXCEPT ![c] = body]
    /\ UNCHANGED <<variant, config, abandoned, created, args, before, acquires, branch, sent, outcome, sfConnection, req,
                   oauthState, tokensFile, envFile>>

\* IndexFetchReturn posting the request once more after an error response
IndexFetchReturnRetrying(c) ==
    /\ variant = "index"
    /\ pc[c] = "fetch"
    /\ \E body \in TokenResponses :
         /\ IF Truthy(body.error) /\ Len(sent[c]) < 2
            THEN /\ sent' = [sent EXCEPT ![c] = Append(@, ClientCredentialsRequest(config))]
                 /\ UNCHANGED <<pc, conn, result>>
            ELSE IF Truthy(body.error)
            THEN /\ result' = [result EXCEPT ![c] =
                        Caught(args[c].tool, ClientCredentialsError(body))]
                 /\ pc' = [pc EXCEPT ![c] = "done"]
                 /\ UNCHANGED <<conn, sent>>
            ELSE /\ conn' = [conn EXCEPT ![c] = ClientCredentialsConnection(c, body)]
                 /\ pc' = [pc EXCEPT ![c] = DataOperation(args[c].tool)]
                 /\ UNCHANGED <<result, sent>>
         /\ data' = [data EXCEPT ![c] = body]
    /\ UNCHANGED <<variant, config, abandoned, created, args, before, acquires, branch, outcome, sfConnection, req,
                   oauthState, tokensFile, envFile>>

\* the token endpoint answers the client-credentials POST
IndexFetchReturn(c) ==
    /\ variant = "index"
    /\ pc[c] = "fetch"
    /\ \E body \in TokenResponses :
         /\ IF Truthy(body.error)
            THEN /\ result' = [result EXCEPT ![c] =
                        Caught(args[c].tool, ClientCredentialsError(body))]
                 /\ pc' = [pc EXCEPT ![c] = "done"]
                 /\ UNCHANGED conn
            ELSE /\ conn' = [conn EXCEPT ![c] = ClientCredentialsConnection(c, body)]
                 /\ pc' = [pc EXCEPT ![c] = DataOperation(args[c].tool)]
                 /\ UNCHANGED result
         /\ data' = [data EXCEPT ![c] = body]
    /\ UNCHANGED <<variant, config, abandoned, created, args, before, acquires, branch, sent, outcome, sfConnection, req,
                   oauthState, tokensFile, envFile>>

\* PasswordInvoke keeping the password it logs in with in the configuration
PasswordInvokeStoringPassword(c) ==
    /\ variant = "password"
    /\ pc[c] = "idle"
    /\ args' = [args EXCEPT ![c] = SoqlArgs]
    /\ branch' = [branch EXCEPT ![c] = "PasswordOnly"]
    /\ conn' = [conn EXCEPT ![c] =
           NewConnection(c, UNDEF, UNDEF, UNDEF, FALSE,
                         OrElse(config.loginUrl, DefaultLoginUrl))]
    /\ config' = [config EXCEPT !.password = LoginPassword(config)]
    /\ sent' = [sent EXCEPT ![c] = Append(@, LoginRequest(config, FALSE))]
    /\ pc' = [pc EXCEPT ![c] = "login"]
    /\ before' = [before EXCEPT ![c] = {d \in Calls : pc[d] = "done"}]
    /\ acquires' = [acquires EXCEPT ![c] = @ + 1]
    /\ UNCHANGED <<variant, abandoned, created, data, result, outcome, sfConnection, req,
                   oauthState, tokensFile, envFile>>

(***************************************************************************)
(* soql_query of src/unnamed/part_000: getSalesforceConnection always logs *)
(* in with the username and password.                                      *)
(***************************************************************************)
PasswordInvoke(c) ==
    /\ variant = "password"
    /\ pc[c] = "idle"
    /\ args' = [args EXCEPT ![c] = SoqlArgs]
    /\ branch' = [branch EXCEPT ![c] = "PasswordOnly"]
    /\ conn' = [conn EXCEPT ![c] =
           NewConnection(c, UNDEF, UNDEF, UNDEF, FALSE,
                         OrElse(config.loginUrl, DefaultLoginUrl))]
    /\ sent' = [sent EXCEPT ![c] = Append(@, LoginRequest(config, FALSE))]
    /\ pc' = [pc EXCEPT ![c] = "login"]
    /\ before' = [before EXCEPT ![c] = {d \in Calls : pc[d] = "done"}]
    /\ acquires' = [acquires EXCEPT ![c] = @ + 1]
    /\ UNCHANGED <<variant, config, abandoned, created, data, result, outcome, sfConnection, req,
                   oauthState, tokensFile, envFile>>

\* conn.login returns or throws (both createServer variants)
LoginReturn(c) ==
    /\ variant \in {"index", "password"}
    /\ pc[c] = "login"
    /\ \E r \in LoginResponses :
         IF r.ok
         THEN /\ conn' = [conn EXCEPT ![c] =
                     [@ EXCEPT !.accessToken = r.accessToken,
                               !.instanceUrl = r.instanceUrl]]
              /\ pc' = [pc EXCEPT ![c] = DataOperation(args[c].tool)]
              /\ UNCHANGED <<result, outcome>>
         ELSE /\ result' = [result EXCEPT ![c] = Caught(args[c].tool, r.message)]
              /\ outcome' = [outcome EXCEPT ![c] = r.message]
              /\ pc' = [pc EXCEPT ![c] = "done"]
              /\ UNCHANGED conn
    /\ UNCHANGED <<variant, config, abandoned, created, args, before, acquires, branch, sent, data, sfConnection, req,
                   oauthState, tokensFile, envFile>>

\* conn.query returns or throws (both createServer variants)
QueryReturn(c) ==
    /\ variant \in {"index", "password"}
    /\ pc[c] = "query"
    /\ \E r \in QueryResponses :
         /\ outcome' = [outcome EXCEPT ![c] = IF r.ok THEN "ok" ELSE r.message]
         /\ result' = [result EXCEPT ![c] =
                IF r.ok THEN QuerySuccess ELSE QueryError(r.message)]
    /\ pc' = [pc EXCEPT ![c] = "done"]
    /\ UNCHANGED <<variant, config, abandoned, created, args, before, acquires, branch, sent, data, conn, sfConnection, req,
                   oauthState, tokensFile, envFile>>

(***************************************************************************)
(* src/packages/mcp/minimal-server/server.js.  The configuration is        *)
(* process.env: SALESFORCE_ACCESS_TOKEN, SALESFORCE_INSTANCE_URL,          *)
(* SALESFORCE_USERNAME, SALESFORCE_PASSWORD and SALESFORCE_LOGIN_URL are   *)
(* the accessToken, instanceUrl, username, password and loginUrl fields.   *)
(***************************************************************************)
MinimalConfigs ==
    { Config(UNDEF, UNDEF, UNDEF, un, pw, UNDEF, at, iu, lu) :
        un \in {UNDEF, "u"}, pw \in {UNDEF, "p"}, at \in {UNDEF, "AT"},
        iu \in InstanceUrls, lu \in LoginUrls }

\* the environments the minimal server is run with: one per arm of
\* connectToSalesforce, and those in which two arms' variables are set
MinimalRunConfigs ==
    { NoConfig,
      Config(UNDEF, UNDEF, UNDEF, "u", "p", UNDEF, UNDEF, UNDEF, UNDEF),
      Config(UNDEF, UNDEF, UNDEF, "u", "p", UNDEF, UNDEF, UNDEF, "https://test.salesforce.com"),
      Config(UNDEF, UNDEF, UNDEF, UNDEF, UNDEF, UNDEF, "AT", "https://my.instance", UNDEF),
      Config(UNDEF, UNDEF, UNDEF, "u", "p", UNDEF, "AT", "https://my.instance", UNDEF),
      Config(UNDEF, UNDEF, UNDEF, "u", "p", UNDEF, "AT", UNDEF, UNDEF) }

\* which arm of connectToSalesforce's if / else if runs
ConnectBranch(cfg) ==
    IF Truthy(cfg.accessToken) /\ Truthy(cfg.instanceUrl) THEN "DirectToken"
    ELSE IF Truthy(cfg.username) /\ Truthy(cfg.password) THEN "PasswordOnly"
    ELSE "none"

\* new jsforce.Connection({ loginUrl: process.env.SALESFORCE_LOGIN_URL || '...', version })
MinimalConnection(p, cfg) ==
    NewConnection(p, UNDEF, UNDEF, UNDEF, FALSE, OrElse(cfg.loginUrl, DefaultLoginUrl))

\* conn.login(process.env.SALESFORCE_USERNAME, process.env.SALESFORCE_PASSWORD)
MinimalLoginRequest(cfg) ==
    LoginCall(OrElse(cfg.loginUrl, DefaultLoginUrl), FALSE, cfg.username, cfg.password)

ConnectFailedResult ==
    ToolResult("Failed to connect to Salesforce. Please check your credentials.", FALSE)

\* the catch block of the tools/call handler: no isError
MinimalError(message) == ToolResult("Error: " \o message, FALSE)

\* the tools tools/list advertises, and a name it does not
MinimalTools == {"soql_query", "get_sobjects", "no_such_tool"}

MinimalArgs == { Args(t, UNDEF, <<>>, UNDEF, UNDEF) : t \in MinimalTools }

\* the default case of the handler's switch: no isError
MinimalUnknownTool(name) == ToolResult("Unknown tool: " \o name, FALSE)

\* sobjects.sobjects.map(obj => obj.name)
ObjectNames == <<"Account", "Contact">>

\* what describeGlobal may answer
DescribeResponses ==
    { [ok |-> TRUE, message |-> ""],
      [ok |-> FALSE, message |-> ExpiredMessage] }

\* the text of get_sobjects
SobjectsText == "Available Salesforce Objects (first 50):\n" \o ObjectNames[1] \o "\n" \o ObjectNames[2]

\* after `Ensure connection': the handler (main() when p is 0) goes on with
\* the connection cached now: no connection, or the switch on the tool's
\* name, whose first two cases await the provider
MinimalQueryStart(p, cached, tool) ==
    IF p = 0
    THEN /\ pc' = [pc EXCEPT ![p] = "done"]
         /\ UNCHANGED <<conn, result>>
    ELSE IF cached.obj /\ tool = "soql_query"
    THEN /\ conn' = [conn EXCEPT ![p] = cached]
         /\ pc' = [pc EXCEPT ![p] = "query"]
         /\ UNCHANGED result
    ELSE IF cached.obj /\ tool = "get_sobjects"
    THEN /\ conn' = [conn EXCEPT ![p] = cached]
         /\ pc' = [pc EXCEPT ![p] = "describe"]
         /\ UNCHANGED result
    ELSE IF cached.obj
    THEN /\ conn' = [conn EXCEPT ![p] = cached]
         /\ result' = [result EXCEPT ![p] = MinimalUnknownTool(tool)]
         /\ pc' = [pc EXCEPT ![p] = "done"]
    ELSE /\ result' = [result EXCEPT ![p] = ConnectFailedResult]
         /\ pc' = [pc EXCEPT ![p] = "done"]
         /\ UNCHANGED conn

(***************************************************************************)
(* connectToSalesforce, run by process p (main() is process 0, else the    *)
(* tools/call handler that found sfConnection null), up to the await of    *)
(* conn.login; when no login is needed it stores the connection at once    *)
(* and the caller goes on.                                                 *)
(***************************************************************************)
ConnectToSalesforce(p, tool) ==
    LET b == ConnectBranch(config) IN
    /\ acquires' = [acquires EXCEPT ![p] = @ + 1]
    /\ branch' = [branch EXCEPT ![p] = b]
    /\ IF b = "PasswordOnly"
       THEN /\ sent' = [sent EXCEPT ![p] = Append(@, MinimalLoginRequest(config))]
            /\ pc' = [pc EXCEPT ![p] = "login"]
            /\ UNCHANGED <<sfConnection, conn, result>>
       ELSE LET made ==
                  IF b = "DirectToken"
                  THEN [MinimalConnection(p, config) EXCEPT
                           !.accessToken = config.accessToken,
                           !.instanceUrl = config.instanceUrl]
                  ELSE MinimalConnection(p, config)
            IN /\ sfConnection' = made
               /\ MinimalQueryStart(p, made, tool)
               /\ UNCHANGED sent

\* main(): await connectToSalesforce() before the server accepts requests
MinimalMain ==
    /\ variant = "minimal"
    /\ pc[0] = "idle"
    /\ ConnectToSalesforce(0, UNDEF)
    /\ UNCHANGED <<variant, config, abandoned, created, args, before, data, outcome, req, oauthState, tokensFile, envFile>>

\* the tools/call handler, up to its first await on the network
MinimalInvoke(c) ==
    /\ variant = "minimal"
    /\ pc[0] = "done"
    /\ pc[c] = "idle"
    /\ \E a \in MinimalArgs :
         /\ args' = [args EXCEPT ![c] = a]
         /\ IF ~sfConnection.obj
            THEN ConnectToSalesforce(c, a.tool)
            ELSE /\ MinimalQueryStart(c, sfConnection, a.tool)
                 /\ UNCHANGED <<acquires, branch, sent, sfConnection>>
    /\ before' = [before EXCEPT ![c] = {d \in Calls : pc[d] = "done"}]
    /\ UNCHANGED <<variant, config, abandoned, created, data, outcome, req, oauthState, tokensFile, envFile>>

\* conn.login returns or throws inside connectToSalesforce, and the caller goes on
MinimalLoginReturn(p) ==
    /\ variant = "minimal"
    /\ pc[p] = "login"
    /\ \E r \in LoginResponses :
         IF r.ok
         THEN LET made == [MinimalConnection(p, config) EXCEPT
                              !.accessToken = r.accessToken,
                              !.instanceUrl = r.instanceUrl]
              IN /\ sfConnection' = made
                 /\ MinimalQueryStart(p, made, args[p].tool)
                 /\ UNCHANGED outcome
         ELSE /\ outcome' = [outcome EXCEPT ![p] = r.message]
              /\ UNCHANGED sfConnection
              /\ MinimalQueryStart(p, sfConnection, args[p].tool)
    /\ UNCHANGED <<variant, config, abandoned, created, args, before, acquires, branch, sent, data, req, oauthState,
                   tokensFile, envFile>>

\* sfConnection.query returns or throws
MinimalQueryReturn(c) ==
    /\ variant = "minimal"
    /\ pc[c] = "query"
    /\ \E r \in QueryResponses :
         /\ outcome' = [outcome EXCEPT ![c] = IF r.ok THEN "ok" ELSE r.message]
         /\ result' = [result EXCEPT ![c] =
                IF r.ok THEN ToolResult(QueryJson, FALSE) ELSE MinimalError(r.message)]
    /\ pc' = [pc EXCEPT ![c] = "done"]
    /\ UNCHANGED <<variant, config, abandoned, created, args, before, acquires, branch, sent, data, conn, sfConnection, req,
                   oauthState, tokensFile, envFile>>

\* sfConnection.describeGlobal returns or throws
MinimalDescribeReturn(c) ==
    /\ variant = "minimal"
    /\ pc[c] = "describe"
    /\ \E r \in DescribeResponses :
         /\ outcome' = [outcome EXCEPT ![c] = IF r.ok THEN "ok" ELSE r.message]
         /\ result' = [result EXCEPT ![c] =
                IF r.ok THEN ToolResult(SobjectsText, FALSE) ELSE MinimalError(r.message)]
    /\ pc' = [pc EXCEPT ![c] = "done"]
    /\ UNCHANGED <<variant, config, abandoned, created, args, before, acquires, branch, sent, data, conn,
                   sfConnection, req, oauthState, tokensFile, envFile>>

\* The caller of request c stops waiting (a timeout on its side) while the
\* handler awaits conn.login.  The handler takes `request' only and never
\* looks at a cancellation signal, so nothing of the server changes.
MinimalAbandon(c) ==
    /\ variant = "minimal"
    /\ pc[c] = "login"
    /\ c \notin abandoned
    /\ abandoned' = abandoned \cup {c}
    /\ UNCHANGED <<variant, config, args, pc, before, acquires, branch, sent, data, conn, outcome,
                   created, result, sfConnection, req, oauthState, tokensFile, envFile>>

(***************************************************************************)
(* src/packages/mcp/oauth-setup.js: the /oauth/callback route.  The        *)
(* configuration is oauth2Config (clientId, clientSecret, loginUrl);       *)
(* req[c] is req.query of request c.                                       *)
(***************************************************************************)
OAuthConfigs ==
    { Config("id1", "sec1", UNDEF, UNDEF, UNDEF, UNDEF, UNDEF, UNDEF, lu) : lu \in LoginUrls }

\* crypto.randomBytes(16).toString('hex'), drawn once at startup
StartupState == "5f2a"

Query(code, state, error, error_description) ==
    [code |-> code, state |-> state, error |-> error,
     error_description |-> error_description]

NoQuery == Query(UNDEF, UNDEF, UNDEF, UNDEF)

\* the query strings received: a description comes only with an error, and a
\* missing code is tried with the right state and no error
CallbackQueries ==
    { q \in { Query(code, state, error, description) :
                code \in {UNDEF, "c1"}, state \in {UNDEF, StartupState, "0000"},
                error \in {UNDEF, "access_denied"}, description \in {UNDEF, "user denied"} } :
        /\ q.error = UNDEF => q.error_description = UNDEF
        /\ q.code = UNDEF => (q.state = StartupState /\ q.error = UNDEF) }

InitialOAuthState == [state |-> StartupState, tokens |-> NoTokens, error |-> UNDEF]

\* an HTML page sent with res.send; isError marks the pages headed by a cross
Page(heading, message, isError) ==
    [returned |-> TRUE, isError |-> isError, text |-> heading \o ": " \o message]

\* const tokenUrl = `${oauth2Config.loginUrl}/services/oauth2/token` and its params
CallbackRequest(cfg, q) ==
    TokenPost(Str(OrElse(cfg.loginUrl, DefaultLoginUrl)) \o "/services/oauth2/token",
              "authorization_code", cfg.clientId, cfg.clientSecret, q.code)

\* throw new Error(tokens.error_description || 'Failed to get access token')
CallbackError(tokens) == OrElse(tokens.error_description, "Failed to get access token")

\* the lines saveTokens writes to .env.oauth
EnvContent(tokens) ==
    [access_token |-> Str(tokens.access_token), instance_url |-> Str(tokens.instance_url),
     refresh_token |-> IF Truthy(tokens.refresh_token) THEN tokens.refresh_token ELSE UNDEF]

NoEnv == [access_token |-> UNDEF, instance_url |-> UNDEF, refresh_token |-> UNDEF]

\* OAuthCallback without the comparison of state with oauthState.state
OAuthCallbackWithoutStateTest(c) ==
    /\ variant = "oauth"
    /\ pc[c] = "idle"
    /\ \E q \in CallbackQueries :
         /\ req' = [req EXCEPT ![c] = q]
         /\ IF Truthy(q.error)
            THEN /\ oauthState' = [oauthState EXCEPT
                        !.error = OrElse(q.error_description, q.error)]
                 /\ result' = [result EXCEPT ![c] =
                        Page("OAuth Error", OrElse(q.error_description, q.error), TRUE)]
                 /\ pc' = [pc EXCEPT ![c] = "done"]
                 /\ UNCHANGED <<sent, branch>>
            ELSE /\ sent' = [sent EXCEPT ![c] = Append(@, CallbackRequest(config, q))]
                 /\ branch' = [branch EXCEPT ![c] = "AuthorizationCode"]
                 /\ pc' = [pc EXCEPT ![c] = "fetch"]
                 /\ UNCHANGED <<result, oauthState>>
    /\ before' = [before EXCEPT ![c] = {d \in Calls : pc[d] = "done"}]
    /\ UNCHANGED <<variant, config, abandoned, created, args, acquires, data, conn, outcome, sfConnection, tokensFile,
                   envFile>>

\* app.get('/oauth/callback'), up to the await of fetch
OAuthCallback(c) ==
    /\ variant = "oauth"
    /\ pc[c] = "idle"
    /\ \E q \in CallbackQueries :
         /\ req' = [req EXCEPT ![c] = q]
         /\ IF Truthy(q.error)
            THEN /\ oauthState' = [oauthState EXCEPT
                        !.error = OrElse(q.error_description, q.error)]
                 /\ result' = [result EXCEPT ![c] =
                        Page("OAuth Error", OrElse(q.error_description, q.error), TRUE)]
                 /\ pc' = [pc EXCEPT ![c] = "done"]
                 /\ UNCHANGED <<sent, branch>>
            ELSE IF q.state # oauthState.state
            THEN /\ result' = [result EXCEPT ![c] =
                        Page("Security Error",
                             "Invalid state parameter. Possible CSRF attack.", TRUE)]
                 /\ pc' = [pc EXCEPT ![c] = "done"]
                 /\ UNCHANGED <<sent, branch, oauthState>>
            ELSE /\ sent' = [sent EXCEPT ![c] = Append(@, CallbackRequest(config, q))]
                 /\ branch' = [branch EXCEPT ![c] = "AuthorizationCode"]
                 /\ pc' = [pc EXCEPT ![c] = "fetch"]
                 /\ UNCHANGED <<result, oauthState>>
    /\ before' = [before EXCEPT ![c] = {d \in Calls : pc[d] = "done"}]
    /\ UNCHANGED <<variant, config, abandoned, created, args, acquires, data, conn, outcome, sfConnection, tokensFile,
                   envFile>>

\* the token endpoint answers; on an access token saveTokens starts writing
OAuthFetchReturn(c) ==
    /\ variant = "oauth"
    /\ pc[c] = "fetch"
    /\ \E tokens \in TokenResponses :
         /\ data' = [data EXCEPT ![c] = tokens]
         /\ IF Truthy(tokens.access_token)
            THEN /\ oauthState' = [oauthState EXCEPT !.tokens = tokens]
                 /\ pc' = [pc EXCEPT ![c] = "writeTokens"]
                 /\ UNCHANGED result
            ELSE /\ result' = [result EXCEPT ![c] =
                        Page("Token Exchange Failed", CallbackError(tokens), TRUE)]
                 /\ pc' = [pc EXCEPT ![c] = "done"]
                 /\ UNCHANGED oauthState
    /\ UNCHANGED <<variant, config, abandoned, created, args, before, acquires, branch, sent, conn, outcome, sfConnection, req,
                   tokensFile, envFile>>

\* saveTokens: fs.writeFile(tokensFile, JSON.stringify(tokens)) completes
OAuthWriteTokens(c) ==
    /\ variant = "oauth"
    /\ pc[c] = "writeTokens"
    /\ tokensFile' = data[c]
    /\ pc' = [pc EXCEPT ![c] = "writeEnv"]
    /\ UNCHANGED <<variant, config, abandoned, created, args, before, acquires, branch, sent, data, conn, outcome, result,
                   sfConnection, req, oauthState, envFile>>

\* saveTokens: fs.writeFile(envFile, envContent) completes; res.send(getSuccessPage(tokens))
OAuthWriteEnv(c) ==
    /\ variant = "oauth"
    /\ pc[c] = "writeEnv"
    /\ envFile' = EnvContent(data[c])
    /\ result' = [result EXCEPT ![c] =
           Page("OAuth Setup Complete", Str(data[c].instance_url), FALSE)]
    /\ pc' = [pc EXCEPT ![c] = "done"]
    /\ UNCHANGED <<variant, config, abandoned, created, args, before, acquires, branch, sent, data, conn, outcome, sfConnection,
                   req, oauthState, tokensFile>>

(***************************************************************************)
(* insert_record.  What conn.sobject(T).create(recordData) may do: return  *)
(* one result or an array of results, or throw.                            *)
(***************************************************************************)
SaveResult(hasSuccess, success, id, errorsIsArray, errors) ==
    [hasSuccess |-> hasSuccess, success |-> success, id |-> id,
     errorsIsArray |-> errorsIsArray, errors |-> errors]

Saved == SaveResult(TRUE, TRUE, "001xx000003DGb2AAG", TRUE, <<>>)

CreateReturned(array, results) ==
    [thrown |-> FALSE, instanceOfError |-> FALSE, message |-> "", array |-> array,
     results |-> results]

CreateThrew(instanceOfError, message) ==
    [thrown |-> TRUE, instanceOfError |-> instanceOfError, message |-> message,
     array |-> FALSE, results |-> <<>>]

NoCreate == CreateReturned(FALSE, <<>>)

CreateResponses ==
    { CreateReturned(FALSE, <<Saved>>),
      CreateReturned(TRUE, <<Saved>>),
      CreateReturned(TRUE, <<>>),
      CreateReturned(FALSE, <<SaveResult(TRUE, FALSE, UNDEF, TRUE,
          <<"REQUIRED_FIELD_MISSING: Required fields are missing: [LastName]",
            "INVALID_FIELD">>)>>),
      CreateReturned(FALSE, <<SaveResult(TRUE, FALSE, "001xx000003DGb2AAG", FALSE, <<>>)>>),
      CreateReturned(FALSE, <<SaveResult(FALSE, FALSE, UNDEF, TRUE, <<>>)>>),
      CreateReturned(FALSE, <<SaveResult(TRUE, TRUE, "", TRUE, <<>>)>>),
      CreateThrew(TRUE, "NOT_FOUND: The requested resource does not exist"),
      CreateThrew(FALSE, "") }

\* errors.map(e => typeof e === 'string' ? e : JSON.stringify(e)).join(', ')
RECURSIVE Join(_)
Join(errors) ==
    IF errors = <<>> THEN ""
    ELSE IF Len(errors) = 1 THEN errors[1]
    ELSE errors[1] \o ", " \o Join(Tail(errors))

\* Array.isArray(singleResult.errors) ? ... : JSON.stringify(singleResult.errors)
ErrorsText(single) == IF single.errorsIsArray THEN Join(single.errors) ELSE "undefined"

\* 'success' in singleResult, with singleResult undefined
InOperatorMessage == "Cannot use 'in' operator to search for 'success' in undefined"

\* CreatedText without the test of singleResult.id
CreatedTextWithoutIdTest(a, results) ==
    LET single == results[1] IN
    IF single.hasSuccess /\ ~single.success
    THEN ToolResult("Failed to insert " \o a.sobjectType \o " record: " \o ErrorsText(single),
                    TRUE)
    ELSE ToolResult("Successfully inserted " \o a.sobjectType \o " record.\n\nRecord ID: "
                        \o Str(single.id) \o "\n\nInserted data:\n" \o Json(a.recordData),
                    FALSE)

\* the handler's text once create has returned `results'
CreatedText(a, results) ==
    LET single == results[1] IN
    IF single.hasSuccess /\ ~single.success
    THEN ToolResult("Failed to insert " \o a.sobjectType \o " record: " \o ErrorsText(single),
                    TRUE)
    ELSE IF ~Truthy(single.id)
    THEN ToolResult("Failed to insert " \o a.sobjectType \o " record: No record ID returned",
                    TRUE)
    ELSE ToolResult("Successfully inserted " \o a.sobjectType \o " record.\n\nRecord ID: "
                        \o single.id \o "\n\nInserted data:\n" \o Json(a.recordData),
                    FALSE)

(***************************************************************************)
(* The insert_record handler of src/index.mjs.                             *)
(***************************************************************************)
IndexInsertArgs ==
    { Args("insert_record", t, rd, UNDEF, UNDEF) : t \in SobjectTypes, rd \in RecordDatas }

\* the handler up to its first await on the network
IndexInsertInvoke(c) ==
    /\ variant = "index"
    /\ pc[c] = "idle"
    /\ \E a \in IndexInsertArgs :
         /\ args' = [args EXCEPT ![c] = a]
         /\ IF ~Truthy(a.sobjectType)
            THEN /\ result' = [result EXCEPT ![c] =
                        ToolResult("Error: sobjectType parameter is required", TRUE)]
                 /\ pc' = [pc EXCEPT ![c] = "done"]
                 /\ UNCHANGED <<acquires, branch, sent, conn>>
            ELSE IF Len(a.recordData) = 0
            THEN /\ result' = [result EXCEPT ![c] =
                        ToolResult("Error: recordData parameter is required and must contain at least one field", TRUE)]
                 /\ pc' = [pc EXCEPT ![c] = "done"]
                 /\ UNCHANGED <<acquires, branch, sent, conn>>
            ELSE GetSalesforceConnection(c, "insert_record")
    /\ before' = [before EXCEPT ![c] = {d \in Calls : pc[d] = "done"}]
    /\ UNCHANGED <<variant, config, abandoned, created, data, outcome, sfConnection, req, oauthState,
                   tokensFile, envFile>>

\* conn.sobject(sobjectType).create(recordData) returns or throws
IndexCreateReturn(c) ==
    /\ variant = "index"
    /\ pc[c] = "create"
    /\ \E r \in CreateResponses :
         /\ created' = [created EXCEPT ![c] = r]
         /\ result' = [result EXCEPT ![c] =
                IF r.thrown
                THEN InsertError(IF r.instanceOfError THEN r.message ELSE "undefined")
                ELSE IF r.results = <<>> THEN InsertError(InOperatorMessage)
                ELSE CreatedText(args[c], r.results)]
         /\ outcome' = [outcome EXCEPT ![c] = IF r.thrown THEN "threw" ELSE "returned"]
    /\ pc' = [pc EXCEPT ![c] = "done"]
    /\ UNCHANGED <<variant, config, abandoned, args, before, acquires, branch, sent, data, conn,
                   sfConnection, req, oauthState, tokensFile, envFile>>

(***************************************************************************)
(* InsertRecordMcpTool.exec of                                             *)
(* src/packages/mcp-provider-dx-core/src/tools/insert_record.ts.           *)
(***************************************************************************)
\* textResponse(text, isError = false) of ../shared/utils.js
textResponse(text, isError) == ToolResult(text, isError)

InsertRecordArgs ==
    { Args("insert_record", t, rd, u, d) :
        t \in SobjectTypes, rd \in RecordDatas, u \in UsernamesOrAliases, d \in Directories }

\* process.chdir throws when the directory does not exist
ChdirMessage == "ENOENT: no such file or directory, chdir '/missing'"

\* what this.services.getOrgService().getConnection(usernameOrAlias) may do
GetConnectionResponses ==
    { [ok |-> TRUE, message |-> ""],
      [ok |-> FALSE, message |-> "No authorization information found for me@example.org"] }

\* InsertRecordCaught with textResponse called without its second argument
InsertRecordCaughtUnmarked(instanceOfError, message) ==
    textResponse("Failed to insert record: "
                     \o (IF instanceOfError THEN message ELSE "Unknown error"), FALSE)

\* the catch block of exec
InsertRecordCaught(instanceOfError, message) ==
    textResponse("Failed to insert record: "
                     \o (IF instanceOfError THEN message ELSE "Unknown error"), TRUE)

\* InsertRecordValidation with the sobjectType test made before the usernameOrAlias test
InsertRecordValidationSobjectTypeFirst(a) ==
    IF ~Truthy(a.sobjectType)
    THEN textResponse("The sobjectType parameter is required (e.g., Account, Contact, CustomObject__c)", TRUE)
    ELSE IF ~Truthy(a.usernameOrAlias)
    THEN textResponse("The usernameOrAlias parameter is required. If the user did not specify one, use the #get_username tool", TRUE)
    ELSE IF Len(a.recordData) = 0
    THEN textResponse("The recordData parameter is required and must contain at least one field-value pair", TRUE)
    ELSE NoResult

\* InsertRecordValidation without the test of recordData
InsertRecordValidationWithoutRecordData(a) ==
    IF ~Truthy(a.usernameOrAlias)
    THEN textResponse("The usernameOrAlias parameter is required. If the user did not specify one, use the #get_username tool", TRUE)
    ELSE IF ~Truthy(a.sobjectType)
    THEN textResponse("The sobjectType parameter is required (e.g., Account, Contact, CustomObject__c)", TRUE)
    ELSE NoResult

\* the three tests exec starts with: the result returned by the first that
\* fails, NoResult when all pass
InsertRecordValidation(a) ==
    IF ~Truthy(a.usernameOrAlias)
    THEN textResponse("The usernameOrAlias parameter is required. If the user did not specify one, use the #get_username tool", TRUE)
    ELSE IF ~Truthy(a.sobjectType)
    THEN textResponse("The sobjectType parameter is required (e.g., Account, Contact, CustomObject__c)", TRUE)
    ELSE IF Len(a.recordData) = 0
    THEN textResponse("The recordData parameter is required and must contain at least one field-value pair", TRUE)
    ELSE NoResult

\* exec, up to the await of getConnection
InsertRecordExec(c) ==
    /\ variant = "dx"
    /\ pc[c] = "idle"
    /\ \E a \in InsertRecordArgs :
         /\ args' = [args EXCEPT ![c] = a]
         /\ IF InsertRecordValidation(a) # NoResult
            THEN /\ result' = [result EXCEPT ![c] = InsertRecordValidation(a)]
                 /\ pc' = [pc EXCEPT ![c] = "done"]
                 /\ UNCHANGED acquires
            ELSE IF a.directory = "/missing"
            THEN /\ result' = [result EXCEPT ![c] = InsertRecordCaught(TRUE, ChdirMessage)]
                 /\ pc' = [pc EXCEPT ![c] = "done"]
                 /\ UNCHANGED acquires
            ELSE /\ acquires' = [acquires EXCEPT ![c] = @ + 1]
                 /\ pc' = [pc EXCEPT ![c] = "connect"]
                 /\ UNCHANGED result
    /\ before' = [before EXCEPT ![c] = {d \in Calls : pc[d] = "done"}]
    /\ UNCHANGED <<variant, config, abandoned, created, branch, sent, data, conn, outcome, sfConnection,
                   req, oauthState, tokensFile, envFile>>

\* getConnection resolves, and create is issued, or it rejects
GetConnectionReturn(c) ==
    /\ variant = "dx"
    /\ pc[c] = "connect"
    /\ \E r \in GetConnectionResponses :
         IF r.ok
         THEN /\ conn' = [conn EXCEPT ![c] = [Null EXCEPT !.obj = TRUE, !.id = c]]
              /\ pc' = [pc EXCEPT ![c] = "create"]
              /\ UNCHANGED <<result, outcome>>
         ELSE /\ result' = [result EXCEPT ![c] = InsertRecordCaught(TRUE, r.message)]
              /\ outcome' = [outcome EXCEPT ![c] = r.message]
              /\ pc' = [pc EXCEPT ![c] = "done"]
              /\ UNCHANGED conn
    /\ UNCHANGED <<variant, config, abandoned, created, args, before, acquires, branch, sent, data,
                   sfConnection, req, oauthState, tokensFile, envFile>>

\* connection.sobject(input.sobjectType).create(input.recordData) returns or throws
InsertRecordCreateReturn(c) ==
    /\ variant = "dx"
    /\ pc[c] = "create"
    /\ \E r \in CreateResponses :
         /\ created' = [created EXCEPT ![c] = r]
         /\ result' = [result EXCEPT ![c] =
                IF r.thrown THEN InsertRecordCaught(r.instanceOfError, r.message)
                ELSE IF r.results = <<>> THEN InsertRecordCaught(TRUE, InOperatorMessage)
                ELSE CreatedText(args[c], r.results)]
         /\ outcome' = [outcome EXCEPT ![c] = IF r.thrown THEN "threw" ELSE "returned"]
    /\ pc' = [pc EXCEPT ![c] = "done"]
    /\ UNCHANGED <<variant, config, abandoned, args, before, acquires, branch, sent, data, conn,
                   sfConnection, req, oauthState, tokensFile, envFile>>

(***************************************************************************)
(* The stdio server `salesforce-simple' (src/unnamed/part_004): its        *)
(* tools/call handler logs in first, then dispatches on the tool's name.   *)
(***************************************************************************)
\* process.env of the simple server
SimpleConfigs ==
    { Config(UNDEF, UNDEF, UNDEF, "u", "p", UNDEF, UNDEF, UNDEF, lu) : lu \in LoginUrls }

\* conn.login(process.env.SALESFORCE_USERNAME, process.env.SALESFORCE_PASSWORD)
SimpleLoginRequest(cfg) ==
    LoginCall(OrElse(cfg.loginUrl, DefaultLoginUrl), FALSE, cfg.username, cfg.password)

\* the catch block of the tools/call handler
SimpleError(message) == ToolResult("Error: " \o message, TRUE)

\* the two tests insert_record makes before create; NoResult when both pass
SimpleValidation(a) ==
    IF ~Truthy(a.sobjectType)
    THEN ToolResult("Error: sobjectType parameter is required", TRUE)
    ELSE IF Len(a.recordData) = 0
    THEN ToolResult("Error: recordData parameter is required and must contain at least one field", TRUE)
    ELSE NoResult

\* the handler, called for insert_record, up to `await getConnection()'
SimpleInvoke(c) ==
    /\ variant = "simple"
    /\ pc[c] = "idle"
    /\ \E a \in IndexInsertArgs : args' = [args EXCEPT ![c] = a]
    /\ branch' = [branch EXCEPT ![c] = "PasswordOnly"]
    /\ conn' = [conn EXCEPT ![c] =
           NewConnection(c, UNDEF, UNDEF, UNDEF, FALSE,
                         OrElse(config.loginUrl, DefaultLoginUrl))]
    /\ sent' = [sent EXCEPT ![c] = Append(@, SimpleLoginRequest(config))]
    /\ pc' = [pc EXCEPT ![c] = "login"]
    /\ before' = [before EXCEPT ![c] = {d \in Calls : pc[d] = "done"}]
    /\ acquires' = [acquires EXCEPT ![c] = @ + 1]
    /\ UNCHANGED <<variant, config, abandoned, created, data, result, outcome, sfConnection, req,
                   oauthState, tokensFile, envFile>>

\* conn.login returns or throws; on a connection the handler validates the
\* arguments and calls create
SimpleLoginReturn(c) ==
    /\ variant = "simple"
    /\ pc[c] = "login"
    /\ \E r \in LoginResponses :
         IF r.ok
         THEN /\ conn' = [conn EXCEPT ![c] =
                     [@ EXCEPT !.accessToken = r.accessToken,
                               !.instanceUrl = r.instanceUrl]]
              /\ IF SimpleValidation(args[c]).returned
                 THEN /\ result' = [result EXCEPT ![c] = SimpleValidation(args[c])]
                      /\ pc' = [pc EXCEPT ![c] = "done"]
                 ELSE /\ pc' = [pc EXCEPT ![c] = "create"]
                      /\ UNCHANGED result
              /\ UNCHANGED outcome
         ELSE /\ result' = [result EXCEPT ![c] = SimpleError(r.message)]
              /\ outcome' = [outcome EXCEPT ![c] = r.message]
              /\ pc' = [pc EXCEPT ![c] = "done"]
              /\ UNCHANGED conn
    /\ UNCHANGED <<variant, config, abandoned, created, args, before, acquires, branch, sent, data,
                   sfConnection, req, oauthState, tokensFile, envFile>>

\* conn.sobject(sobjectType).create(recordData) returns or throws
SimpleCreateReturn(c) ==
    /\ variant = "simple"
    /\ pc[c] = "create"
    /\ \E r \in CreateResponses :
         /\ created' = [created EXCEPT ![c] = r]
         /\ result' = [result EXCEPT ![c] =
                IF r.thrown
                THEN SimpleError(IF r.instanceOfError THEN r.message ELSE "undefined")
                ELSE IF r.results = <<>> THEN SimpleError(InOperatorMessage)
                ELSE CreatedText(args[c], r.results)]
         /\ outcome' = [outcome EXCEPT ![c] = IF r.thrown THEN "threw" ELSE "returned"]
    /\ pc' = [pc EXCEPT ![c] = "done"]
    /\ UNCHANGED <<variant, config, abandoned, args, before, acquires, branch, sent, data, conn,
                   sfConnection, req, oauthState, tokensFile, envFile>>

(***************************************************************************)
(* The three stdio servers that answer without calling Salesforce: the     *)
(* last server of src/index.mjs ("echo"), src/packages/mcp/index.mjs       *)
(* ("placeholder") and src/packages/mcp/simple-server.js ("mock").  A      *)
(* handler that throws has its request rejected with a JSON-RPC error:     *)
(* outcome "rejected" and no result.                                       *)
(***************************************************************************)
\* process.env.SALESFORCE_USERNAME unset or set
EchoConfigs ==
    { NoConfig, Config(UNDEF, UNDEF, UNDEF, "u", UNDEF, UNDEF, UNDEF, UNDEF, UNDEF) }

\* the names tools/call is sent with
ToolNames == {"soql_query", "execute_soql", "no_such_tool"}

\* request.params.arguments.query
EchoQuery == "SELECT Id FROM Account"

\* the tools each server's tools/list advertises
Advertised(v) ==
    CASE v = "mock" -> {"execute_soql"}
      [] v = "minimal" -> {"soql_query", "get_sobjects"}
      [] OTHER -> {"soql_query"}

\* `SOQL: ${query}\nOrg: ${username}'
EchoText(cfg) ==
    "SOQL: " \o EchoQuery \o "\nOrg: " \o OrElse(cfg.username, "maya@ecotoreda.com")

\* `Query: ${query}\nResults: Connected to ${...}'
MockText(cfg) ==
    "Query: " \o EchoQuery \o "\nResults: Connected to "
        \o OrElse(cfg.username, "zot.my.salesforce.com")

\* tools/call of the last server of src/index.mjs: throws for another name
EchoCall(c) ==
    /\ variant = "echo"
    /\ pc[c] = "idle"
    /\ \E name \in ToolNames :
         /\ args' = [args EXCEPT ![c] = Args(name, UNDEF, <<>>, UNDEF, UNDEF)]
         /\ IF name = "soql_query"
            THEN /\ result' = [result EXCEPT ![c] = ToolResult(EchoText(config), FALSE)]
                 /\ outcome' = [outcome EXCEPT ![c] = "ok"]
            ELSE /\ outcome' = [outcome EXCEPT ![c] = "rejected"]
                 /\ UNCHANGED result
    /\ pc' = [pc EXCEPT ![c] = "done"]
    /\ before' = [before EXCEPT ![c] = {d \in Calls : pc[d] = "done"}]
    /\ UNCHANGED <<variant, config, abandoned, created, acquires, branch, sent, data, conn,
                   sfConnection, req, oauthState, tokensFile, envFile>>

\* tools/call of src/packages/mcp/index.mjs: the name is not looked at
PlaceholderCall(c) ==
    /\ variant = "placeholder"
    /\ pc[c] = "idle"
    /\ \E name \in ToolNames :
         args' = [args EXCEPT ![c] = Args(name, UNDEF, <<>>, UNDEF, UNDEF)]
    /\ result' = [result EXCEPT ![c] = ToolResult(EchoText(config), FALSE)]
    /\ outcome' = [outcome EXCEPT ![c] = "ok"]
    /\ pc' = [pc EXCEPT ![c] = "done"]
    /\ before' = [before EXCEPT ![c] = {d \in Calls : pc[d] = "done"}]
    /\ UNCHANGED <<variant, config, abandoned, created, acquires, branch, sent, data, conn,
                   sfConnection, req, oauthState, tokensFile, envFile>>

\* tools/call of src/packages/mcp/simple-server.js: for another name the
\* handler returns undefined, neither a result nor an error
MockCall(c) ==
    /\ variant = "mock"
    /\ pc[c] = "idle"
    /\ \E name \in ToolNames :
         /\ args' = [args EXCEPT ![c] = Args(name, UNDEF, <<>>, UNDEF, UNDEF)]
         /\ IF name = "execute_soql"
            THEN /\ result' = [result EXCEPT ![c] = ToolResult(MockText(config), FALSE)]
                 /\ outcome' = [outcome EXCEPT ![c] = "ok"]
            ELSE /\ outcome' = [outcome EXCEPT ![c] = "undefined"]
                 /\ UNCHANGED result
    /\ pc' = [pc EXCEPT ![c] = "done"]
    /\ before' = [before EXCEPT ![c] = {d \in Calls : pc[d] = "done"}]
    /\ UNCHANGED <<variant, config, abandoned, created, acquires, branch, sent, data, conn,
                   sfConnection, req, oauthState, tokensFile, envFile>>

\* fs.readFile rejects when .oauth-tokens.json does not exist
NoFileMessage == "ENOENT: no such file or directory, open '.oauth-tokens.json'"

\* new Connection({ instanceUrl: tokens.instance_url, accessToken: tokens.access_token, version })
TestConnection(p, tokens) ==
    NewConnection(p, tokens.instance_url, tokens.access_token, UNDEF, FALSE, UNDEF)

\* app.get('/test'): reads .oauth-tokens.json and builds a connection from it,
\* up to the await of conn.query
OAuthTest(c) ==
    /\ variant = "oauth"
    /\ pc[c] = "idle"
    /\ branch' = [branch EXCEPT ![c] = "TokensFile"]
    /\ IF tokensFile = NoTokens
       THEN /\ result' = [result EXCEPT ![c] =
                   Page("Connection Test Failed", NoFileMessage, TRUE)]
            /\ pc' = [pc EXCEPT ![c] = "done"]
            /\ UNCHANGED conn
       ELSE /\ conn' = [conn EXCEPT ![c] = TestConnection(c, tokensFile)]
            /\ pc' = [pc EXCEPT ![c] = "query"]
            /\ UNCHANGED result
    /\ before' = [before EXCEPT ![c] = {d \in Calls : pc[d] = "done"}]
    /\ UNCHANGED <<variant, config, abandoned, created, args, acquires, sent, data, outcome, sfConnection, req,
                   oauthState, tokensFile, envFile>>

\* conn.query('SELECT COUNT() FROM Account') of /test returns or throws
OAuthTestReturn(c) ==
    /\ variant = "oauth"
    /\ pc[c] = "query"
    /\ \E r \in QueryResponses :
         /\ outcome' = [outcome EXCEPT ![c] = IF r.ok THEN "ok" ELSE r.message]
         /\ result' = [result EXCEPT ![c] =
                IF r.ok
                THEN Page("Connection Test Successful", "accounts found", FALSE)
                ELSE Page("Connection Test Failed", r.message, TRUE)]
    /\ pc' = [pc EXCEPT ![c] = "done"]
    /\ UNCHANGED <<variant, config, abandoned, created, args, before, acquires, branch, sent, data, conn,
                   sfConnection, req, oauthState, tokensFile, envFile>>

(***************************************************************************)
(* The specification.                                                      *)
(***************************************************************************)
Variants == {"index", "password", "minimal", "oauth", "echo", "placeholder", "mock"}

ConfigsOf(v) ==
    CASE v = "index" -> IndexRunConfigs
      [] v = "password" -> PasswordConfigs
      [] v = "minimal" -> MinimalRunConfigs
      [] v = "oauth" -> OAuthConfigs
      [] OTHER -> EchoConfigs

\* the state of a server that has received no request yet
Started ==
    /\ args = [p \in Procs |-> NoArgs]
    /\ pc = [p \in Procs |-> IF p = 0 /\ variant # "minimal" THEN "done" ELSE "idle"]
    /\ before = [p \in Procs |-> {}]
    /\ abandoned = {}
    /\ acquires = [p \in Procs |-> 0]
    /\ branch = [p \in Procs |-> "none"]
    /\ sent = [p \in Procs |-> <<>>]
    /\ data = [p \in Procs |-> NoTokens]
    /\ conn = [p \in Procs |-> Null]
    /\ outcome = [p \in Procs |-> "none"]
    /\ created = [p \in Procs |-> NoCreate]
    /\ result = [p \in Procs |-> NoResult]
    /\ sfConnection = Null
    /\ req = [p \in Procs |-> NoQuery]
    /\ oauthState = InitialOAuthState
    /\ tokensFile = NoTokens
    /\ envFile = NoEnv

Init ==
    /\ variant \in Variants
    /\ config \in ConfigsOf(variant)
    /\ Started

Next ==
    \/ \E c \in Calls : IndexInvoke(c)
    \/ \E c \in Calls : IndexFetchReturn(c)
    \/ \E c \in Calls : PasswordInvoke(c)
    \/ \E c \in Calls : LoginReturn(c)
    \/ \E c \in Calls : QueryReturn(c)
    \/ MinimalMain
    \/ \E c \in Calls : MinimalInvoke(c)
    \/ \E p \in Procs : MinimalLoginReturn(p)
    \/ \E c \in Calls : MinimalDescribeReturn(c)
    \/ \E c \in Calls : MinimalAbandon(c)
    \/ \E c \in Calls : MinimalQueryReturn(c)
    \/ \E c \in Calls : OAuthCallback(c)
    \/ \E c \in Calls : OAuthFetchReturn(c)
    \/ \E c \in Calls : OAuthWriteTokens(c)
    \/ \E c \in Calls : OAuthWriteEnv(c)
    \/ \E c \in Calls : OAuthTest(c)
    \/ \E c \in Calls : OAuthTestReturn(c)
    \/ \E c \in Calls : EchoCall(c)
    \/ \E c \in Calls : PlaceholderCall(c)
    \/ \E c \in Calls : MockCall(c)

Spec == Init /\ [][Next]_vars

(***************************************************************************)
(* One soql_query invocation of src/index.mjs under every configuration    *)
(* the configSchema admits.  The handlers of src/index.mjs share no state, *)
(* so what one invocation does with a configuration does not depend on     *)
(* the others.                                                             *)
(***************************************************************************)
InitSelect ==
    /\ variant = "index"
    /\ config \in IndexConfigs
    /\ Started

NextSelect ==
    \/ IndexInvoke(1)
    \/ IndexFetchReturn(1)
    \/ LoginReturn(1)
    \/ QueryReturn(1)

SpecSelect == InitSelect /\ [][NextSelect]_vars

(***************************************************************************)
(* The insert_record tools: the handler of src/index.mjs ("index") and     *)
(* InsertRecordMcpTool of mcp-provider-dx-core ("dx"), whose connection    *)
(* comes from the org service and not from a configuration.  For           *)
(* src/index.mjs, one configuration for each branch of                     *)
(* getSalesforceConnection.                                                *)
(***************************************************************************)
InsertVariants == {"index", "dx", "simple"}

InsertConfigs ==
    { Config("id1", "sec1", UNDEF, UNDEF, UNDEF, UNDEF, UNDEF, UNDEF, UNDEF),
      Config("id1", "sec1", "rt1", UNDEF, UNDEF, UNDEF, UNDEF, "https://my.instance", UNDEF),
      Config("id1", "sec1", UNDEF, "u", "p", "tok", UNDEF, UNDEF, UNDEF),
      Config(UNDEF, UNDEF, UNDEF, "u", "p", UNDEF, UNDEF, UNDEF, UNDEF),
      Config(UNDEF, UNDEF, UNDEF, UNDEF, UNDEF, UNDEF, "AT", "https://my.instance", UNDEF),
      NoConfig }

InitInsert ==
    /\ variant \in InsertVariants
    /\ config \in (IF variant = "dx" THEN {NoConfig}
                   ELSE IF variant = "simple" THEN SimpleConfigs
                   ELSE InsertConfigs)
    /\ Started

NextInsert ==
    \/ \E c \in Calls : IndexInsertInvoke(c)
    \/ \E c \in Calls : IndexFetchReturn(c)
    \/ \E c \in Calls : LoginReturn(c)
    \/ \E c \in Calls : IndexCreateReturn(c)
    \/ \E c \in Calls : InsertRecordExec(c)
    \/ \E c \in Calls : GetConnectionReturn(c)
    \/ \E c \in Calls : InsertRecordCreateReturn(c)
    \/ \E c \in Calls : SimpleInvoke(c)
    \/ \E c \in Calls : SimpleLoginReturn(c)
    \/ \E c \in Calls : SimpleCreateReturn(c)

SpecInsert == InitInsert /\ [][NextInsert]_vars

TypeOK ==
    /\ variant \in Variants \cup InsertVariants
    /\ config \in IndexConfigs \cup PasswordConfigs \cup MinimalConfigs \cup OAuthConfigs
    /\ abandoned \subseteq Calls
    /\ \A p \in Procs :
         /\ pc[p] \in {"idle", "fetch", "login", "query", "describe", "connect", "create", "writeTokens",
                       "writeEnv", "done"}
         /\ Len(sent[p]) <= 1
         /\ result[p].returned <=>
              (p # 0 /\ pc[p] = "done" /\ outcome[p] \notin {"rejected", "undefined"})

(***************************************************************************)
(* The properties.  What the specification calls a bundle is `config'; a   *)
(* field is present when it is set to a non-empty value.                   *)
(***************************************************************************)
Present(v) == v # UNDEF /\ v # ""

\* the five strategy conditions of section 4.1
Rule1(cfg) ==
    /\ Present(cfg.clientId) /\ Present(cfg.clientSecret)
    /\ ~Present(cfg.username) /\ ~Present(cfg.refreshToken)

Rule2(cfg) == Present(cfg.refreshToken) /\ Present(cfg.clientId) /\ Present(cfg.clientSecret)

Rule3(cfg) ==
    /\ Present(cfg.username) /\ Present(cfg.password)
    /\ Present(cfg.clientId) /\ Present(cfg.clientSecret)

\* rule 4 as written, and with its parenthesis "(no app credentials)" made a condition
Rule4(cfg) == Present(cfg.username) /\ Present(cfg.password)

Rule4NoApp(cfg) == Rule4(cfg) /\ ~(Present(cfg.clientId) /\ Present(cfg.clientSecret))

Rule5(cfg) == Present(cfg.instanceUrl) /\ Present(cfg.accessToken)

Strategies ==
    {"ClientCredentials", "RefreshToken", "PasswordWithApp", "PasswordOnly", "DirectToken"}

\* the strategies whose condition holds, under either reading of rule 4
Matching(cfg, noApp) ==
    { s \in Strategies :
        \/ s = "ClientCredentials" /\ Rule1(cfg)
        \/ s = "RefreshToken" /\ Rule2(cfg)
        \/ s = "PasswordWithApp" /\ Rule3(cfg)
        \/ s = "PasswordOnly" /\ (IF noApp THEN Rule4NoApp(cfg) ELSE Rule4(cfg))
        \/ s = "DirectToken" /\ Rule5(cfg) }

\* the strategy whose handshake a request on the network is
HandshakeOf(r) ==
    IF r.kind = "token" /\ r.grant_type = "client_credentials" THEN "ClientCredentials"
    ELSE IF r.kind = "token" /\ r.grant_type = "refresh_token" THEN "RefreshToken"
    ELSE IF r.kind = "login" /\ r.grant_type = "password" THEN "PasswordWithApp"
    ELSE IF r.kind = "login" THEN "PasswordOnly"
    ELSE "other"

Handshakes(p) == { sent[p][i] : i \in 1..Len(sent[p]) }

\* C1: in src/index.mjs, whenever exactly one of the five strategy conditions
\* holds for the configuration (under either reading of rule 4), every
\* acquisition takes the branch of that strategy and every request it puts on
\* the network is the handshake of that strategy.
C1_ExactlyOneRuleSelectsItsBranch ==
    variant = "index" =>
        \A c \in Calls, noApp \in BOOLEAN, s \in Strategies :
            (pc[c] # "idle" /\ Matching(config, noApp) = {s}) =>
                /\ branch[c] = s
                /\ \A r \in Handshakes(c) : HandshakeOf(r) = s

\* C1 witness: a configuration with username, password, clientId and clientSecret
\* (rule 3 alone once rule 4 excludes app credentials) has logged in through
\* the connected app and run its query.
C1_Witness ==
    /\ variant = "index"
    /\ Matching(config, TRUE) = {"PasswordWithApp"}
    /\ \E c \in Calls :
         /\ pc[c] = "done" /\ outcome[c] = "ok"
         /\ branch[c] = "PasswordWithApp"
         /\ Len(sent[c]) = 1

\* C2: in src/index.mjs, a configuration with clientId, clientSecret and
\* refreshToken all set takes the RefreshToken branch, and no configuration
\* with a refreshToken or a username takes the ClientCredentials branch or
\* sends the client-credentials request.
C2_RefreshTokenBeatsClientCredentials ==
    variant = "index" =>
        \A c \in Calls : pc[c] # "idle" =>
            /\ (Present(config.clientId) /\ Present(config.clientSecret)
                  /\ Present(config.refreshToken)) => branch[c] = "RefreshToken"
            /\ (Present(config.refreshToken) \/ Present(config.username)) =>
                  /\ branch[c] # "ClientCredentials"
                  /\ \A r \in Handshakes(c) : HandshakeOf(r) # "ClientCredentials"

\* C2 witness: clientId, clientSecret and refreshToken are set, nothing else, and
\* an acquisition has built its connection around the refresh token.
C2_Witness ==
    /\ variant = "index"
    /\ Present(config.clientId) /\ Present(config.clientSecret)
    /\ Present(config.refreshToken) /\ ~Present(config.username)
    /\ \E c \in Calls :
         /\ pc[c] = "query"
         /\ branch[c] = "RefreshToken"
         /\ conn[c].refreshToken = config.refreshToken
         /\ sent[c] = <<>>

\* none of the recognized credential fields is set (loginUrl has a default)
NoCredentials(cfg) ==
    /\ ~Present(cfg.clientId) /\ ~Present(cfg.clientSecret)
    /\ ~Present(cfg.refreshToken) /\ ~Present(cfg.username)
    /\ ~Present(cfg.password) /\ ~Present(cfg.securityToken)
    /\ ~Present(cfg.accessToken) /\ ~Present(cfg.instanceUrl)

SessionServers == {"index", "password", "minimal"}

\* C3: with none of the recognized credential fields set, no strategy is chosen,
\* nothing is put on the network, no connection object is produced or stored
\* for later calls, and every answered invocation failed with the
\* missing-credentials failure.  (Fails in the minimal server, which stores an
\* unauthenticated connection in sfConnection and queries on it.)
C3_NoCredentialsNoConnection ==
    (variant \in SessionServers /\ NoCredentials(config)) =>
        /\ ~sfConnection.obj
        /\ \A p \in Procs :
             /\ branch[p] = "none"
             /\ sent[p] = <<>>
             /\ ~conn[p].obj
             /\ result[p].returned =>
                  /\ result[p].isError
                  /\ Contains(result[p].text, "Authentication configuration missing")

\* invocations c and d overlap: neither had been answered when the other arrived
Concurrent(c, d) ==
    /\ c # d
    /\ pc[c] # "idle" /\ pc[d] # "idle"
    /\ c \notin before[d] /\ d \notin before[c]

\* invocation c found no connection cached and acquired one itself
AcquiredItself(c) == acquires[c] > 0

\* C4: two overlapping invocations that both acquire a connection because none
\* is cached cause at most one exchange/login handshake between them.  (Fails:
\* src/index.mjs has no cache and each invocation logs in; in the minimal
\* server both invocations find sfConnection null and both log in.)
C4_ConcurrentCallsOneHandshake ==
    variant \in {"index", "minimal"} =>
        \A c, d \in Calls :
            (Concurrent(c, d) /\ AcquiredItself(c) /\ AcquiredItself(d)) =>
                Len(sent[c]) + Len(sent[d]) <= 1

\* C5: in the minimal server, which caches its connection, an invocation
\* answered after its data operation failed on an expired session has acquired
\* a connection once more after the one it queried on, and the stale
\* connection is no longer the cached one.  (Fails: the handler returns the
\* failure at once and sfConnection is never cleared.)
C5_ExpiredSessionReacquiredOnce ==
    variant = "minimal" =>
        \A c \in Calls :
            (pc[c] = "done" /\ outcome[c] = ExpiredMessage /\ Present(conn[c].accessToken)) =>
                /\ acquires[c] = (IF conn[c].id = c THEN 2 ELSE 1)
                /\ sfConnection # conn[c]

\* no login, exchange or data operation has failed so far
NoFailureSoFar ==
    \A p \in Procs :
        /\ outcome[p] \in {"none", "ok"}
        /\ ~Truthy(data[p].error)
        /\ ~result[p].isError
        /\ result[p] # ConnectFailedResult

\* C6: as long as nothing has failed, invocations that follow one another run
\* the handshake at most once between them.  (Fails: src/index.mjs logs in
\* again on every invocation.)
C6_SequentialCallsOneHandshake ==
    (variant \in {"index", "minimal"} /\ NoFailureSoFar) =>
        \A c, d \in Calls :
            (c \in before[d] /\ pc[d] # "idle") =>
                Len(sent[c]) + Len(sent[d]) + Len(sent[0]) <= 1

\* C8: in both password branches of src/index.mjs and in src/unnamed/part_000,
\* the password handed to the login is the configured password followed at
\* once by the security token when one is set ("p" and "tok" give "ptok",
\* "Secret1" and "ABC123" give "Secret1ABC123"), and the configured password
\* alone when none is set.
C8_PasswordThenTokenNoSeparator ==
    variant \in {"index", "password"} =>
        \A c \in Calls : \A r \in Handshakes(c) :
            r.kind = "login" =>
                LET pw == config.password
                    tok == config.securityToken
                IN /\ Present(tok) =>
                        /\ Len(r.password) = Len(pw) + Len(tok)
                        /\ SubSeq(r.password, 1, Len(pw)) = pw
                        /\ SubSeq(r.password, Len(pw) + 1, Len(r.password)) = tok
                   /\ ~Present(tok) => r.password = pw
                   /\ (pw = "p" /\ tok = "tok") => r.password = "ptok"
                   /\ (pw = "Secret1" /\ tok = "ABC123") => r.password = "Secret1ABC123"

\* C8 witness: with password "p" and security token "tok", the login through the
\* connected app (PasswordWithApp) was handed "ptok".
C8_Witness ==
    /\ variant = "index"
    /\ config.password = "p" /\ config.securityToken = "tok"
    /\ \E c \in Calls :
         /\ branch[c] = "PasswordWithApp"
         /\ Len(sent[c]) = 1
         /\ sent[c][1].kind = "login"
         /\ sent[c][1].password = "ptok"

\* C9: whenever the token endpoint's body has an error field, the handler that
\* received it answers with a failure whose text carries the provider's error
\* code and, when there is one, its error_description.  (Fails in
\* /oauth/callback of the OAuth setup server, which shows error_description
\* alone, or a message of its own when there is none.)
C9_ExchangeFailureCarriesCodeAndDescription ==
    \A c \in Calls :
        (pc[c] = "done" /\ data[c].error # UNDEF) =>
            /\ result[c].isError
            /\ Contains(result[c].text, data[c].error)
            /\ data[c].error_description # UNDEF =>
                   Contains(result[c].text, data[c].error_description)

\* the configuration holds clientId and clientSecret and no other credential
OnlyClientCredentials(cfg) ==
    /\ Present(cfg.clientId) /\ Present(cfg.clientSecret)
    /\ ~Present(cfg.refreshToken) /\ ~Present(cfg.username)
    /\ ~Present(cfg.password) /\ ~Present(cfg.securityToken)
    /\ ~Present(cfg.accessToken) /\ ~Present(cfg.instanceUrl)

\* C10: in src/index.mjs, with only clientId and clientSecret configured, an
\* acquisition sends exactly one request, a token POST with
\* grant_type=client_credentials and the configured client_id and
\* client_secret; once a body without an error field has come back, the
\* connection holds the body's access_token and instance_url and no refresh
\* token.
C10_ClientCredentialsExchange ==
    (variant = "index" /\ OnlyClientCredentials(config)) =>
        \A c \in Calls : pc[c] # "idle" =>
            /\ Len(sent[c]) = 1
            /\ sent[c][1].kind = "token"
            /\ sent[c][1].grant_type = "client_credentials"
            /\ sent[c][1].client_id = config.clientId
            /\ sent[c][1].client_secret = config.clientSecret
            /\ (pc[c] \in {"query", "done"} /\ data[c].error = UNDEF) =>
                  /\ conn[c].obj
                  /\ conn[c].accessToken = data[c].access_token
                  /\ conn[c].instanceUrl = data[c].instance_url
                  /\ conn[c].refreshToken = UNDEF

\* C10 witness: only clientId and clientSecret are configured, the endpoint has
\* answered with access_token T, an instance_url and a refresh_token, and the
\* query runs on the connection built from them.
C10_Witness ==
    /\ variant = "index"
    /\ OnlyClientCredentials(config)
    /\ \E c \in Calls :
         /\ pc[c] = "query"
         /\ data[c].access_token = "T"
         /\ data[c].refresh_token = "R"
         /\ conn[c].accessToken = "T"
         /\ conn[c].instanceUrl = "https://org.my.salesforce.com"

\* C11: in src/index.mjs, with a loginUrl configured and no instanceUrl, the
\* client-credentials token POST goes to that loginUrl followed by
\* /services/oauth2/token.  (Fails: the URL is built from config.instanceUrl
\* or the literal https://login.salesforce.com; config.loginUrl is not read.)
C11_ClientCredentialsPostTargetsLoginUrl ==
    (variant = "index" /\ Present(config.loginUrl) /\ ~Present(config.instanceUrl)) =>
        \A c \in Calls : \A r \in Handshakes(c) :
            (r.kind = "token" /\ r.grant_type = "client_credentials") =>
                r.url = config.loginUrl \o "/services/oauth2/token"

\* the messages a failed login is rejected with
LoginFailureMessages == { r.message : r \in { x \in LoginResponses : ~x.ok } }

\* process p's login or token exchange failed, and p went no further
HandshakeFailed(p) ==
    /\ pc[p] = "done"
    /\ \/ outcome[p] \in LoginFailureMessages
       \/ Truthy(data[p].error)

\* what the provider said about p's failed handshake
ProviderMessage(p) ==
    IF Truthy(data[p].error)
    THEN OrElse(data[p].error_description, data[p].error)
    ELSE outcome[p]

\* C12: once a process's login or token exchange has failed, the connection
\* cached for later invocations is not one that process made, the invocation
\* was answered with a text that carries the provider's message, and while no
\* connection is cached every invocation that has started has put a handshake
\* of its own on the network.  (Fails in the minimal server, whose handler
\* answers "Failed to connect to Salesforce. Please check your credentials."
\* and logs the provider's message to the console only.)
C12_FailedHandshakeNotCachedAndReported ==
    variant \in SessionServers =>
        \A p \in Procs : HandshakeFailed(p) =>
            /\ sfConnection.obj => sfConnection.id # p
            /\ p \in Calls =>
                 /\ result[p].returned
                 /\ Contains(result[p].text, ProviderMessage(p))
            /\ ~sfConnection.obj =>
                 \A d \in Calls : pc[d] # "idle" => Len(sent[d]) = 1

\* invocation c was stopped by an authentication failure: its login or token
\* exchange failed, or no credentials were found and no connection was made
AuthFailed(c) ==
    \/ HandshakeFailed(c)
    \/ pc[c] = "done" /\ acquires[c] > 0 /\ branch[c] = "none" /\ ~conn[c].obj

\* C13: an invocation stopped by an authentication failure (missing
\* credentials, failed exchange, failed login) has returned a result, and the
\* result is marked as an error.  (Fails in the minimal server, whose
\* "Failed to connect to Salesforce" result has no isError.)
C13_AuthFailureIsErrorResult ==
    \A c \in Calls : AuthFailed(c) =>
        /\ result[c].returned
        /\ result[c].isError

\* C14: in src/index.mjs, the text returned when no branch matches names every
\* accepted combination of credentials: clientId + clientSecret, refreshToken +
\* clientId + clientSecret, username + password + clientId + clientSecret,
\* username + password, and instanceUrl with accessToken.  (Fails: the message
\* names the first four only.)
C14_MissingMessageNamesAllFive ==
    variant = "index" =>
        \A c \in Calls :
            (pc[c] = "done" /\ branch[c] = "none") =>
                /\ Contains(result[c].text, "(clientId + clientSecret)")
                /\ Contains(result[c].text, "(refreshToken + clientId + clientSecret)")
                /\ Contains(result[c].text, "(username + password + clientId + clientSecret)")
                /\ Contains(result[c].text, "(username + password)")
                /\ Contains(result[c].text, "instanceUrl")
                /\ Contains(result[c].text, "accessToken")

\* C15 as stated: no configuration that contains a password or a refreshToken
\* takes the ClientCredentials branch.  (Fails: the first test of
\* getSalesforceConnection looks at username, not at password, so clientId,
\* clientSecret and a password without a username take ClientCredentials.)
C15_NoPasswordOrRefreshTokenWithClientCredentials ==
    variant = "index" =>
        \A c \in Calls :
            branch[c] = "ClientCredentials" =>
                ~Present(config.password) /\ ~Present(config.refreshToken)

\* C15 amended: in src/index.mjs the ClientCredentials branch is taken, and the
\* client-credentials request sent, only when clientId and clientSecret are
\* set and username and refreshToken are both absent; the password field is
\* not looked at.
C15_ClientCredentialsOnlyWithoutUsernameAndRefreshToken ==
    variant = "index" =>
        \A c \in Calls :
            (branch[c] = "ClientCredentials"
               \/ \E r \in Handshakes(c) : HandshakeOf(r) = "ClientCredentials") =>
                /\ Present(config.clientId) /\ Present(config.clientSecret)
                /\ ~Present(config.username) /\ ~Present(config.refreshToken)
                /\ branch[c] = SelectBranch([config EXCEPT !.password = UNDEF])

\* C15 witness: clientId, clientSecret and a password are set, username and
\* refreshToken are not, and the client-credentials request has been sent.
C15_Witness ==
    /\ variant = "index"
    /\ Present(config.password) /\ ~Present(config.username)
    /\ ~Present(config.refreshToken)
    /\ \E c \in Calls :
         /\ branch[c] = "ClientCredentials"
         /\ Len(sent[c]) = 1
         /\ HandshakeOf(sent[c][1]) = "ClientCredentials"

\* username, password, instanceUrl and accessToken are set, and no clientId,
\* clientSecret or refreshToken
PasswordAndToken(cfg) ==
    /\ Present(cfg.username) /\ Present(cfg.password)
    /\ Present(cfg.instanceUrl) /\ Present(cfg.accessToken)
    /\ ~Present(cfg.clientId) /\ ~Present(cfg.clientSecret) /\ ~Present(cfg.refreshToken)

\* C16: in every server that resolves credentials, with username, password,
\* instanceUrl and accessToken all set and no clientId, clientSecret or
\* refreshToken, every acquisition logs in with the username and password and
\* does not use the configured access token.  (Fails in the minimal server,
\* which tests the access token and instance URL first.)
C16_PasswordOnlyBeforeDirectToken ==
    (variant \in SessionServers /\ PasswordAndToken(config)) =>
        \A p \in Procs : acquires[p] > 0 =>
            /\ branch[p] = "PasswordOnly"
            /\ Len(sent[p]) = 1
            /\ sent[p][1].kind = "login"
            /\ conn[p].accessToken # config.accessToken
            /\ sfConnection.accessToken # config.accessToken

\* C17: a connection built from the token record persisted in
\* .oauth-tokens.json belongs to a request that selected one of the five
\* strategies from the configured credentials; the record is never made a
\* connection as it stands.  (Fails: /test of the OAuth setup server builds
\* its connection from the file's instance_url and access_token and queries
\* on it, whatever the configuration and the age of the record.)
C17_PersistedRecordGoesThroughSelection ==
    variant = "oauth" =>
        \A c \in Calls :
            (conn[c].obj /\ tokensFile # NoTokens
               /\ conn[c].accessToken = tokensFile.access_token) =>
                branch[c] \in Strategies

SecretFields == {"clientSecret", "password", "securityToken", "refreshToken", "accessToken"}

\* the configuration of a second run: every secret that is set has another value
OtherSecrets(cfg) ==
    [f \in DOMAIN cfg |-> IF f \in SecretFields /\ Present(cfg[f]) THEN "*" ELSE cfg[f]]

\* the failure text the handler of `tool' returns for configuration cfg when
\* the token endpoint answers `body' and the login or data operation is
\* rejected with `message'
FailureText(cfg, tool, body, message) ==
    (IF tool = "insert_record" THEN "Error inserting record: " ELSE "Error executing query: ")
    \o (IF SelectBranch(cfg) = "none" THEN MissingMessage
        ELSE IF Truthy(body.error)
        THEN "OAuth Client Credentials failed: " \o Str(body.error) \o " - "
                 \o Str(body.error_description)
        ELSE message)

\* C18: in src/index.mjs and src/unnamed/part_000, the text of a failure result
\* is the text the same handler returns in a run that differs only in the
\* values of clientSecret, password, securityToken, refreshToken and
\* accessToken and receives the same answers from the provider.
C18_FailureTextIndependentOfSecrets ==
    variant \in {"index", "password"} =>
        \A c \in Calls :
            (pc[c] = "done" /\ result[c].isError) =>
                result[c].text =
                    FailureText(OtherSecrets(config), args[c].tool, data[c], outcome[c])

\* C18 witness: with a clientSecret configured, the client-credentials exchange
\* was refused and the invocation returned the provider's code and description.
C18_Witness ==
    /\ variant = "index"
    /\ Present(config.clientSecret)
    /\ \E c \in Calls :
         /\ pc[c] = "done" /\ result[c].isError
         /\ data[c].error = "invalid_grant"
         /\ result[c].text =
              "Error executing query: OAuth Client Credentials failed: invalid_grant - authentication failure"

\* invocation c never reached the provider: it asked for no connection, holds
\* none, and create was not issued
NeverReachedProvider(c) ==
    /\ pc[c] \notin {"connect", "create"}
    /\ acquires[c] = 0
    /\ ~conn[c].obj
    /\ outcome[c] = "none"
    /\ created[c] = NoCreate

\* C19: insert_record of mcp-provider-dx-core, called with a non-empty
\* usernameOrAlias and sobjectType and a recordData without keys, returns an
\* error result whose one text is exactly "The recordData parameter is
\* required and must contain at least one field-value pair", and neither
\* getConnection nor create is called.
C19_EmptyRecordDataRejected ==
    variant = "dx" =>
        \A c \in Calls :
            (pc[c] # "idle" /\ Truthy(args[c].usernameOrAlias)
               /\ Truthy(args[c].sobjectType) /\ Len(args[c].recordData) = 0) =>
                /\ pc[c] = "done"
                /\ result[c] = ToolResult("The recordData parameter is required and must contain at least one field-value pair", TRUE)
                /\ NeverReachedProvider(c)

\* C19 witness: sobjectType "Account", a usernameOrAlias and recordData {} were
\* passed and the invocation has returned its error result.
C19_Witness ==
    /\ variant = "dx"
    /\ \E c \in Calls :
         /\ pc[c] = "done"
         /\ args[c].sobjectType = "Account"
         /\ args[c].usernameOrAlias = "me@example.org"
         /\ args[c].recordData = <<>>
         /\ result[c].isError
         /\ Contains(result[c].text, "recordData parameter is required")

\* C20: insert_record of mcp-provider-dx-core, called with an empty
\* usernameOrAlias, returns an error result whose text is exactly "The
\* usernameOrAlias parameter is required. If the user did not specify one, use
\* the #get_username tool", whatever sobjectType, recordData and directory
\* are, and calls neither getConnection nor create.
C20_EmptyUsernameOrAliasRejectedFirst ==
    variant = "dx" =>
        \A c \in Calls :
            (pc[c] # "idle" /\ args[c].usernameOrAlias = "") =>
                /\ pc[c] = "done"
                /\ result[c] = ToolResult("The usernameOrAlias parameter is required. If the user did not specify one, use the #get_username tool", TRUE)
                /\ NeverReachedProvider(c)

\* C20 witness: usernameOrAlias, sobjectType and recordData were all empty, and
\* the result is the one about usernameOrAlias.
C20_Witness ==
    /\ variant = "dx"
    /\ \E c \in Calls :
         /\ pc[c] = "done"
         /\ args[c].usernameOrAlias = ""
         /\ args[c].sobjectType = ""
         /\ args[c].recordData = <<>>
         /\ result[c].isError
         /\ Contains(result[c].text, "usernameOrAlias parameter is required")

\* the provider's result examined for invocation c: the first element when
\* create returned an array
SingleResult(c) == created[c].results[1]

\* create returned to invocation c a result with success false or without an id
RejectedByResult(c) ==
    /\ pc[c] = "done" /\ outcome[c] = "returned"
    /\ created[c].results # <<>>
    /\ \/ SingleResult(c).hasSuccess /\ ~SingleResult(c).success
       \/ ~Present(SingleResult(c).id)

\* create raised an error to invocation c, or returned an empty array, whose
\* examination raises one
RejectedByError(c) ==
    /\ pc[c] = "done"
    /\ \/ outcome[c] = "threw"
       \/ outcome[c] = "returned" /\ created[c].results = <<>>

\* "Failed to insert T record" for the sobjectType T of invocation c
FailedToInsertT(c) == "Failed to insert " \o args[c].sobjectType \o " record"

\* C21 as stated: whenever the provider rejects the insert, by a result with
\* success false, by a result without an id or by raising an error,
\* insert_record of mcp-provider-dx-core returns an error result whose one
\* text contains "Failed to insert T record".  (Fails when create raises an
\* error: the catch block's text is "Failed to insert record: " and the
\* error's message, without T.)
C21_EveryRejectionNamesTheType ==
    variant = "dx" =>
        \A c \in Calls :
            (RejectedByResult(c) \/ RejectedByError(c)) =>
                /\ result[c].returned /\ result[c].isError
                /\ Contains(result[c].text, FailedToInsertT(c))

\* C21 amended: when create returns a result with success false or without an
\* id, insert_record of mcp-provider-dx-core returns an error result whose one
\* text contains "Failed to insert T record"; when create raises an error (or
\* returns an empty array), it returns an error result whose text is "Failed
\* to insert record: " followed by the error's message, or by "Unknown error"
\* when what was raised is not an Error.
C21_RejectionIsFailedToInsert ==
    variant = "dx" =>
        \A c \in Calls :
            /\ RejectedByResult(c) =>
                 /\ result[c].returned /\ result[c].isError
                 /\ Contains(result[c].text, FailedToInsertT(c))
            /\ RejectedByError(c) =>
                 /\ result[c].returned /\ result[c].isError
                 /\ result[c].text =
                      "Failed to insert record: "
                          \o (IF outcome[c] = "returned" THEN InOperatorMessage
                              ELSE IF created[c].instanceOfError THEN created[c].message
                              ELSE "Unknown error")

\* C21 witness: create raised NOT_FOUND for an Account and the invocation
\* returned the catch block's text.
C21_Witness ==
    /\ variant = "dx"
    /\ \E c \in Calls :
         /\ RejectedByError(c)
         /\ args[c].sobjectType = "Account"
         /\ created[c].message = "NOT_FOUND: The requested resource does not exist"
         /\ result[c].text = "Failed to insert record: NOT_FOUND: The requested resource does not exist"

\* the provider's result for invocation c has a non-empty id and does not
\* have success equal to false
AcceptedByResult(c) ==
    /\ outcome[c] = "returned"
    /\ created[c].results # <<>>
    /\ Present(SingleResult(c).id)
    /\ ~(SingleResult(c).hasSuccess /\ ~SingleResult(c).success)

\* the result of invocation c is a non-error result with the success text
SuccessfullyInserted(c) ==
    /\ result[c].returned /\ ~result[c].isError
    /\ Contains(result[c].text, "Successfully inserted " \o args[c].sobjectType \o " record")
    /\ Contains(result[c].text, "Record ID: " \o SingleResult(c).id)
    /\ Contains(result[c].text, Json(args[c].recordData))

\* C22: a finished insert_record invocation (src/index.mjs and
\* mcp-provider-dx-core) returned a non-error result, whose text contains
\* "Successfully inserted T record", "Record ID: <id>" and the JSON of the
\* submitted recordData, if and only if the provider's result (its first
\* element when an array is returned) has a non-empty id and does not have
\* success equal to false.
C22_SuccessIffIdAndNotFailed ==
    \A c \in Calls :
        pc[c] = "done" =>
            /\ AcceptedByResult(c) => SuccessfullyInserted(c)
            /\ ~AcceptedByResult(c) => result[c].returned /\ result[c].isError

\* C22 witness: create returned an array whose first element has an id, and
\* the invocation returned the success text; another finished invocation was
\* refused for a result without an id.
C22_Witness ==
    /\ \E c \in Calls :
         /\ pc[c] = "done" /\ AcceptedByResult(c) /\ created[c].array
         /\ SuccessfullyInserted(c)
    /\ \E c \in Calls :
         /\ pc[c] = "done" /\ outcome[c] = "returned" /\ created[c].results # <<>>
         /\ ~Present(SingleResult(c).id)
         /\ result[c].isError

\* C23: in src/index.mjs, when the handshake of the selected strategy fails,
\* the invocation is answered with an error that carries that handshake's
\* message and is left without a session, even when instanceUrl and
\* accessToken are configured; and the requests an acquisition puts on the
\* network are at most one, the handshake of the branch it selected.
C23_FailedHandshakeHasNoFallback ==
    variant = "index" =>
        \A c \in Calls :
            /\ Len(sent[c]) <= 1
            /\ \A r \in Handshakes(c) : HandshakeOf(r) = branch[c]
            /\ HandshakeFailed(c) =>
                 /\ result[c].returned /\ result[c].isError
                 /\ Contains(result[c].text, ProviderMessage(c))
                 /\ conn[c] = Null \/ ~Truthy(conn[c].accessToken)

\* C23 witness: clientId, clientSecret, instanceUrl and accessToken are all
\* configured, the client-credentials exchange was refused, and the
\* invocation ended with the exchange's error and no connection.
C23_Witness ==
    /\ variant = "index"
    /\ Truthy(config.clientId) /\ Truthy(config.clientSecret)
    /\ Truthy(config.instanceUrl) /\ Truthy(config.accessToken)
    /\ \E c \in Calls :
         /\ branch[c] = "ClientCredentials"
         /\ HandshakeFailed(c)
         /\ data[c].error = "invalid_grant"
         /\ Contains(result[c].text, "authentication failure")
         /\ conn[c] = Null
         /\ Len(sent[c]) = 1

\* the POSTs to a token endpoint among the requests of invocation c
TokenPosts(c) == { i \in 1..Len(sent[c]) : sent[c][i].kind = "token" }

\* C24: in src/index.mjs, an invocation whose acquisition took the
\* client-credentials branch has put exactly one POST on the network, the
\* client_credentials grant to the token endpoint, and once the endpoint has
\* answered with an error the invocation is over with that one POST.
C24_OneClientCredentialsPost ==
    variant = "index" =>
        \A c \in Calls :
            branch[c] = "ClientCredentials" =>
                /\ acquires[c] = 1
                /\ Cardinality(TokenPosts(c)) = 1
                /\ sent[c][1] = ClientCredentialsRequest(config)
                /\ Truthy(data[c].error) => pc[c] = "done" /\ conn[c] = Null

\* C24 witness: the token endpoint answered invalid_client, and the
\* invocation is over having posted once.
C24_Witness ==
    /\ variant = "index"
    /\ \E c \in Calls :
         /\ branch[c] = "ClientCredentials"
         /\ data[c].error = "invalid_client"
         /\ pc[c] = "done"
         /\ Cardinality(TokenPosts(c)) = 1
         /\ result[c].isError

\* the session of connection k is the configured instanceUrl and accessToken
ConfiguredSession(k) ==
    /\ k.instanceUrl = config.instanceUrl
    /\ k.accessToken = config.accessToken
    /\ k.refreshToken = UNDEF

\* C25: in src/index.mjs and in the minimal server, a process whose
\* acquisition took the DirectToken branch has put no request on the network
\* for it, and the connection it works on (and the one the minimal server
\* caches) carries the configured instanceUrl and accessToken unchanged.
C25_DirectTokenWithoutNetwork ==
    variant \in {"index", "minimal"} =>
        \A p \in Procs :
            branch[p] = "DirectToken" =>
                /\ sent[p] = <<>>
                /\ conn[p].obj => ConfiguredSession(conn[p])
                /\ variant = "minimal" => sfConnection.obj /\ ConfiguredSession(sfConnection)

\* C25 witness (src/index.mjs): an invocation took the DirectToken branch and
\* finished its query on the configured session without a handshake.
C25_Witness ==
    /\ variant = "index"
    /\ \E c \in Calls :
         /\ branch[c] = "DirectToken"
         /\ pc[c] = "done"
         /\ conn[c].obj
         /\ conn[c].accessToken = "AT" /\ conn[c].instanceUrl = "https://my.instance"
         /\ sent[c] = <<>>

\* the login that request c ran in connectToSalesforce gave it a session
CreationSucceeded(c) == conn[c].obj /\ conn[c].id = c

\* C26 as stated, for the minimal server: when the caller of request c has
\* abandoned it while c's session creation was in flight, the creation's
\* outcome is what every request that overlapped with c observes: c's session
\* when the creation succeeded, the connection failure when it failed.
\* (Fails: each request that finds sfConnection null runs a login of its own,
\* so an overlapping request can obtain a session although c's creation
\* failed, and works on its own session although c's succeeded.)
C26_AbandonedCreationOutcomeShared ==
    variant = "minimal" =>
        \A c \in abandoned : \A d \in Calls \ {c} :
            (pc[c] = "done" /\ pc[d] = "done" /\ Concurrent(c, d)) =>
                /\ CreationSucceeded(c) => conn[d] = conn[c]
                /\ ~CreationSucceeded(c) => result[d] = ConnectFailedResult

\* C27: no step of a server changes the configuration: whatever acquisitions
\* run (src/index.mjs, src/unnamed/part_000, the minimal server), every field
\* of config, password included, keeps its value; the password followed by
\* the security token is a value of the acquisition, seen only in the login
\* request it sends.
C27_AcquisitionLeavesConfigUnchanged == [][config' = config]_vars

\* C27 witness: two acquisitions have logged in with password followed by
\* securityToken, and the configured password is still the bare one.
C27_Witness ==
    /\ variant \in {"index", "password"}
    /\ config.password = "p" /\ config.securityToken = "tok"
    /\ \A c \in Calls :
         /\ acquires[c] = 1
         /\ pc[c] = "done"
         /\ sent[c] # <<>>
         /\ sent[c][1].kind = "login"
         /\ sent[c][1].password = "ptok"

\* the texts with which the insert_record handlers refuse a request for a
\* missing sobjectType or a recordData without keys
ValidationTexts ==
    { "Error: sobjectType parameter is required",
      "Error: recordData parameter is required and must contain at least one field",
      "The sobjectType parameter is required (e.g., Account, Contact, CustomObject__c)",
      "The recordData parameter is required and must contain at least one field-value pair" }

\* C28 as stated: in every server (src/index.mjs, mcp-provider-dx-core and
\* the simple stdio server), an insert_record request answered with a
\* validation error has caused no acquisition, no login handshake and no
\* connection.  (Fails in the simple stdio server, whose tools/call handler
\* awaits getConnection(), a login, before it looks at the arguments.)
C28_ValidationPrecedesAcquisition ==
    \A c \in Calls :
        (pc[c] = "done" /\ result[c].isError /\ result[c].text \in ValidationTexts) =>
            /\ acquires[c] = 0
            /\ sent[c] = <<>>
            /\ ~conn[c].obj

\* request c named a tool that the server's tools/list does not advertise
UnadvertisedTool(c) ==
    /\ pc[c] = "done"
    /\ args[c].tool \notin Advertised(variant)

\* C29 as stated, for the four servers that handle tools/call themselves (the
\* last server of src/index.mjs, src/packages/mcp/index.mjs,
\* src/packages/mcp/simple-server.js and the minimal server): a request
\* naming a tool that tools/list does not advertise is rejected with an error
\* or answered with a result marked as an error.  (Fails: the handler of
\* src/packages/mcp/index.mjs answers any name with the SOQL text, and the
\* minimal server answers "Unknown tool: <name>" without isError.)
C29_UnadvertisedToolIsAnError ==
    variant \in {"echo", "placeholder", "mock", "minimal"} =>
        \A c \in Calls :
            UnadvertisedTool(c) =>
                \/ outcome[c] = "rejected"
                \/ result[c].returned /\ result[c].isError

\* request c was a /oauth/callback request
IsCallback(c) == pc[c] # "idle" /\ req[c] # NoQuery

\* the query has no error parameter and its state is the one drawn at startup
AcceptedCallback(q) == ~Truthy(q.error) /\ q.state = StartupState

\* request c is an accepted callback whose exchange returned the tokens t
ExchangedBy(c, t) ==
    /\ IsCallback(c) /\ AcceptedCallback(req[c])
    /\ sent[c] # <<>>
    /\ Truthy(t.access_token)
    /\ data[c] = t

\* C30: in the OAuth setup server, a /oauth/callback request with an error
\* parameter or with a state other than the one drawn at startup is over
\* without a token exchange, and whatever tokens are in oauthState.tokens, in
\* .oauth-tokens.json and in .env.oauth are those that the exchange of a
\* callback without error and with the startup state returned.
C30_OnlyAcceptedCallbacksStoreTokens ==
    variant = "oauth" =>
        /\ oauthState.state = StartupState
        /\ \A c \in Calls :
             (IsCallback(c) /\ ~AcceptedCallback(req[c])) =>
                 /\ pc[c] = "done"
                 /\ sent[c] = <<>>
                 /\ data[c] = NoTokens
                 /\ result[c].isError
        /\ oauthState.tokens # NoTokens =>
             \E c \in Calls : ExchangedBy(c, oauthState.tokens)
        /\ tokensFile # NoTokens =>
             \E c \in Calls : ExchangedBy(c, tokensFile)
        /\ envFile # NoEnv =>
             \E c \in Calls : \E t \in TokenResponses :
                 ExchangedBy(c, t) /\ envFile = EnvContent(t)

\* C30 witness: a callback with a foreign state was refused while nothing was
\* stored, and a callback with the startup state has stored its tokens.
C30_Witness ==
    /\ variant = "oauth"
    /\ \E c, d \in Calls :
         /\ IsCallback(c) /\ req[c].state = "0000" /\ req[c].code = "c1"
         /\ req[c].error = UNDEF
         /\ result[c].text = "Security Error: Invalid state parameter. Possible CSRF attack."
         /\ d \notin before[c]
         /\ ExchangedBy(d, oauthState.tokens)
         /\ pc[d] = "done"
         /\ tokensFile = oauthState.tokens
         /\ envFile = EnvContent(oauthState.tokens)
====
